---------------------------- MODULE Spec2Model ----------------------------
(***************************************************************************)
(* Acceptance checking of omega-words by a deterministic Buchi automaton.  *)
(*                                                                         *)
(* Five specifications are given:                                          *)
(*   - Spec: dbaEvaluateOmegaWord (src/shared/dba.ts, lines 22-156) with   *)
(*     the helpers it calls (buildStep, buildLetterTransforms,             *)
(*     evaluateRegex, combine, dedupe, starClosure, runWord,               *)
(*     findPeriodicCycle);                                                 *)
(*   - SpecParse: parseOmegaWord and the RegexParser                       *)
(*     (src/unnamed/part_000);                                             *)
(*   - SpecFn: one call of starClosure, evaluateRegex, findPeriodicCycle   *)
(*     or the transition compiler on any arguments;                        *)
(*   - SpecSession: the word check of BuchiWorkspace.tsx, which parses     *)
(*     and evaluates a word on each edit;                                  *)
(*   - SpecBoth: the two definitions of dbaEvaluateOmegaWord in dba.ts     *)
(*     (lines 22-156 and 452-519) on the same arguments.                   *)
(*                                                                         *)
(* Strings are sequences of one-character strings, array indices are the   *)
(* 0-based indices of the code, and -1 is the code's "no target" sentinel. *)
(* A nullable value is <<>> (null) or <<v>>.                               *)
(***************************************************************************)
EXTENDS Integers, Sequences, FiniteSets, TLC

VARIABLES
    automaton,        \* the BuchiAutomaton argument
    word,             \* the ParsedOmegaWord argument: [prefix, omega]
    epc,              \* position inside dbaEvaluateOmegaWord
    table,            \* buildStep's table (the closure of step)
    prefixTransforms, \* evaluateRegex(word.prefix, ...)
    loopTransforms,   \* evaluateRegex(word.omega, ...)
    initialIndex,     \* stateToIndex.get(automaton.initial), nullable
    pi,               \* 0-based position of the outer for-of loop
    li,               \* 0-based position of the inner for-of loop
    prefixRun,        \* runWord's result for the current prefix, nullable
    acceptingForPrefix,
    firstNonAccepting,
    sawLoop,
    sampleAccept,
    result,           \* the returned DbaCycleEvaluation, nullable
    runCalls,         \* history: the prefix positions runWord was called for
    cycleCalls,       \* history: the <<pi, li>> findPeriodicCycle was called for
    raw,              \* parseOmegaWord's argument
    ppc,              \* position inside parseOmegaWord
    input,            \* RegexParser.input
    index,            \* RegexParser.index, the cursor
    stack,            \* call stack of the recursive-descent parser
    ret,              \* value returned to the frame on top of the stack
    ast,              \* the RegexNode parser.parse() returned, nullable
    presult,          \* the returned OmegaParseResult, nullable
    psteps,           \* history: number of parser steps taken
    fcall,            \* a call of one helper function: its name and arguments
    flocal,           \* the local variables of the helper while it runs
    fout,             \* the value the helper returned, nullable
    log               \* history: the evaluations finished so far

evars == <<automaton, word, epc, table, prefixTransforms, loopTransforms,
           initialIndex, pi, li, prefixRun, acceptingForPrefix,
           firstNonAccepting, sawLoop, sampleAccept, result, runCalls,
           cycleCalls>>

pvars == <<raw, ppc, input, index, stack, ret, ast, presult, psteps>>

fvars == <<fcall, flocal, fout>>

-----------------------------------------------------------------------------
(* Values *)

Null == <<>>

Some(v) == <<v>>

NoTarget == -1

Range(s) == {s[i] : i \in DOMAIN s}

Digits == <<"0", "1", "2", "3", "4", "5", "6", "7", "8", "9">>

RECURSIVE NumStr(_)
\* Number-to-string conversion of a template literal or of Array.join.
NumStr(n) ==
    IF n < 0 THEN <<"-">> \o NumStr(0 - n)
    ELSE IF n < 10 THEN <<Digits[n + 1]>>
    ELSE NumStr(n \div 10) \o <<Digits[(n % 10) + 1]>>

-----------------------------------------------------------------------------
(* RegexNode *)

Lit(c) == [kind |-> "literal", value |-> <<c>>]

Cat(ns) == [kind |-> "concat", nodes |-> ns]

Alt(ns) == [kind |-> "union", nodes |-> ns]

Star(n) == [kind |-> "star", node |-> n]

Plus(n) == [kind |-> "plus", node |-> n]

Omega(n) == [kind |-> "omega", node |-> n]

\* a null RegexNode (ParsedOmegaWord.prefix when there is no prefix)
NoNode == [kind |-> "null"]

-----------------------------------------------------------------------------
(* Transition compiler *)

\* new Map(automaton.states.map((s, i) => [s, i])).get(name): a later
\* duplicate overwrites an earlier one.
StateToIndex(states, name) ==
    LET hits == {i \in DOMAIN states : states[i] = name}
    IN  IF hits = {} THEN Null
        ELSE Some((CHOOSE i \in hits : \A j \in hits : j <= i) - 1)

\* indexToState[idx]
IndexToState(states, idx) ==
    IF idx + 1 \in DOMAIN states THEN states[idx + 1] ELSE "undefined"

RECURSIVE BuildStepLoopFirstWins(_, _, _, _)
\* BuildStepLoop that keeps the first target written for a (state, symbol)
BuildStepLoopFirstWins(states, transitions, k, tbl) ==
    IF k > Len(transitions) THEN tbl
    ELSE LET t == transitions[k]
             from == StateToIndex(states, t.from)
             to == StateToIndex(states, t.to)
         IN  IF from = Null \/ to = Null
             THEN BuildStepLoopFirstWins(states, transitions, k + 1, tbl)
             ELSE BuildStepLoopFirstWins(states, transitions, k + 1,
                      [tbl EXCEPT ![from[1] + 1] =
                           tbl[from[1] + 1] @@ (t.symbol :> to[1])])

RECURSIVE BuildStepLoop(_, _, _, _)
BuildStepLoop(states, transitions, k, tbl) ==
    IF k > Len(transitions) THEN tbl
    ELSE LET t == transitions[k]
             from == StateToIndex(states, t.from)
             to == StateToIndex(states, t.to)
         IN  IF from = Null \/ to = Null
             THEN BuildStepLoop(states, transitions, k + 1, tbl)
             ELSE BuildStepLoop(states, transitions, k + 1,
                      [tbl EXCEPT ![from[1] + 1] =
                           (t.symbol :> to[1]) @@ tbl[from[1] + 1]])

\* The table of buildStep: one record (symbol -> target index) per state.
BuildStep(a) ==
    BuildStepLoop(a.states, a.transitions, 1,
                  [i \in 1..Len(a.states) |-> <<>>])

\* The function buildStep returns: table[state]?.[symbol] ?? -1
Step(tbl, state, symbol) ==
    IF state + 1 \in DOMAIN tbl /\ symbol \in DOMAIN tbl[state + 1]
    THEN tbl[state + 1][symbol]
    ELSE NoTarget

RECURSIVE LetterMapLoop(_, _, _, _, _)
LetterMapLoop(states, transitions, symbol, k, map) ==
    IF k > Len(transitions) THEN map
    ELSE LET t == transitions[k]
             from == StateToIndex(states, t.from)
             to == StateToIndex(states, t.to)
         IN  IF t.symbol # symbol \/ from = Null \/ to = Null
             THEN LetterMapLoop(states, transitions, symbol, k + 1, map)
             ELSE LetterMapLoop(states, transitions, symbol, k + 1,
                                [map EXCEPT ![from[1] + 1] = to[1]])

\* Record<string, StateTransform>, one entry per alphabet symbol.
BuildLetterTransforms(a) ==
    [s \in Range(a.alphabet) |->
        [map |-> LetterMapLoop(a.states, a.transitions, s, 1,
                               [i \in 1..Len(a.states) |-> NoTarget]),
         word |-> <<s>>]]

-----------------------------------------------------------------------------
(* Transform algebra *)

Identity(size) == [map |-> [i \in 1..size |-> i - 1], word |-> <<>>]

\* b.map[target] ?? -1
MapGet(map, target) ==
    IF target + 1 \in DOMAIN map THEN map[target + 1] ELSE NoTarget

\* compose that applies b before a
ComposeReversed(a, b) ==
    [map |-> [i \in DOMAIN b.map |->
                 IF b.map[i] = NoTarget THEN NoTarget
                 ELSE MapGet(a.map, b.map[i])],
     word |-> a.word \o b.word]

Compose(a, b) ==
    [map |-> [i \in DOMAIN a.map |->
                 IF a.map[i] = NoTarget THEN NoTarget
                 ELSE MapGet(b.map, a.map[i])],
     word |-> a.word \o b.word]

RECURSIVE Join(_, _)
\* Array.prototype.join(",") of map[k..]
Join(map, k) ==
    IF k > Len(map) THEN <<>>
    ELSE IF k = Len(map) THEN NumStr(map[k])
    ELSE NumStr(map[k]) \o <<",">> \o Join(map, k + 1)

TransformKey(t) == Join(t.map, 1)

RECURSIVE DedupeLoop(_, _, _, _)
DedupeLoop(items, k, out, seen) ==
    IF k > Len(items) THEN out
    ELSE LET key == TransformKey(items[k])
         IN  IF key \in seen THEN DedupeLoop(items, k + 1, out, seen)
             ELSE DedupeLoop(items, k + 1, Append(out, items[k]),
                             seen \cup {key})

\* dedupe that keeps every item
DedupeKeepAll(items) == items

Dedupe(items) == DedupeLoop(items, 1, <<>>, {})

RECURSIVE CombineLoop(_, _, _, _, _, _)
\* the nested for-of loops of combine: i over a, j over b
CombineLoop(a, b, i, j, out, seen) ==
    IF i > Len(a) THEN out
    ELSE IF j > Len(b) THEN CombineLoop(a, b, i + 1, 1, out, seen)
    ELSE LET composed == Compose(a[i], b[j])
             key == TransformKey(composed)
         IN  IF key \in seen THEN CombineLoop(a, b, i, j + 1, out, seen)
             ELSE CombineLoop(a, b, i, j + 1, Append(out, composed),
                              seen \cup {key})

Combine(a, b) == CombineLoop(a, b, 1, 1, <<>>, {})

RECURSIVE StarInnerNoQueue(_, _, _, _, _, _)
\* StarInner without the queue.push(composed) of line 431
StarInnerNoQueue(base, current, k, closure, queue, seen) ==
    IF k > Len(base) THEN <<closure, queue, seen>>
    ELSE LET composed == Compose(current, base[k])
             key == TransformKey(composed)
         IN  IF key \in seen
             THEN StarInnerNoQueue(base, current, k + 1, closure, queue, seen)
             ELSE StarInnerNoQueue(base, current, k + 1,
                                   Append(closure, composed), queue,
                                   seen \cup {key})

RECURSIVE StarInner(_, _, _, _, _, _)
\* the for-of loop over base inside starClosure's while loop; returns the
\* updated <<closure, queue, seen>>
StarInner(base, current, k, closure, queue, seen) ==
    IF k > Len(base) THEN <<closure, queue, seen>>
    ELSE LET composed == Compose(current, base[k])
             key == TransformKey(composed)
         IN  IF key \in seen
             THEN StarInner(base, current, k + 1, closure, queue, seen)
             ELSE StarInner(base, current, k + 1, Append(closure, composed),
                            Append(queue, composed), seen \cup {key})

RECURSIVE StarLoop(_, _, _, _)
\* starClosure's while (queue.length > 0): queue.pop() takes the last entry
StarLoop(base, closure, queue, seen) ==
    IF Len(queue) = 0 THEN closure
    ELSE LET current == queue[Len(queue)]
             rest == SubSeq(queue, 1, Len(queue) - 1)
             r == StarInner(base, current, 1, closure, rest, seen)
         IN  StarLoop(base, r[1], r[2], r[3])

\* starClosure that starts from base alone, without identity(size)
StarClosureNoIdentity(base, size) ==
    LET closure == Dedupe(base)
    IN  StarLoop(base, closure, closure,
                 {TransformKey(closure[i]) : i \in DOMAIN closure})

StarClosure(base, size) ==
    LET closure == Dedupe(<<Identity(size)>> \o base)
    IN  StarLoop(base, closure, closure,
                 {TransformKey(closure[i]) : i \in DOMAIN closure})

RECURSIVE BuildLiteralLoop(_, _, _, _, _)
BuildLiteralLoop(literal, lt, size, k, current) ==
    IF k > Len(literal) THEN current
    ELSE IF literal[k] \notin DOMAIN lt
         THEN [map |-> [i \in 1..size |-> NoTarget],
               word |-> Append(current.word, literal[k])]
         ELSE BuildLiteralLoop(literal, lt, size, k + 1,
                               Compose(current, lt[literal[k]]))

BuildLiteralTransform(literal, lt, size) ==
    BuildLiteralLoop(literal, lt, size, 1, Identity(size))

RECURSIVE EvaluateRegex(_, _, _)
RECURSIVE EvalConcat(_, _, _, _, _)
RECURSIVE EvalFlatMap(_, _, _, _)

\* node.nodes.reduce((acc, child) => combine(acc, evaluateRegex(child)), acc)
EvalConcat(nodes, k, acc, lt, size) ==
    IF k > Len(nodes) THEN acc
    ELSE EvalConcat(nodes, k + 1,
                    Combine(acc, EvaluateRegex(nodes[k], lt, size)), lt, size)

\* node.nodes.flatMap((child) => evaluateRegex(child))
EvalFlatMap(nodes, k, lt, size) ==
    IF k > Len(nodes) THEN <<>>
    ELSE EvaluateRegex(nodes[k], lt, size) \o EvalFlatMap(nodes, k + 1, lt, size)

\* EvaluateRegex that evaluates plus as star: the closure itself instead of
\* combine(base, closure)
EvaluateRegexPlusAsStar(node, lt, size) ==
    CASE node.kind = "null" -> <<Identity(size)>>
      [] node.kind = "literal" ->
            <<BuildLiteralTransform(node.value, lt, size)>>
      [] node.kind = "concat" ->
            EvalConcat(node.nodes, 1, <<Identity(size)>>, lt, size)
      [] node.kind = "union" -> Dedupe(EvalFlatMap(node.nodes, 1, lt, size))
      [] node.kind \in {"star", "plus"} ->
            StarClosure(EvaluateRegex(node.node, lt, size), size)
      [] node.kind = "omega" -> EvaluateRegex(node.node, lt, size)
      [] OTHER -> <<Identity(size)>>

EvaluateRegex(node, lt, size) ==
    CASE node.kind = "null" -> <<Identity(size)>>
      [] node.kind = "literal" ->
            <<BuildLiteralTransform(node.value, lt, size)>>
      [] node.kind = "concat" ->
            EvalConcat(node.nodes, 1, <<Identity(size)>>, lt, size)
      [] node.kind = "union" -> Dedupe(EvalFlatMap(node.nodes, 1, lt, size))
      [] node.kind = "star" ->
            StarClosure(EvaluateRegex(node.node, lt, size), size)
      [] node.kind = "plus" ->
            Combine(EvaluateRegex(node.node, lt, size),
                    StarClosure(EvaluateRegex(node.node, lt, size), size))
      [] node.kind = "omega" -> EvaluateRegex(node.node, lt, size)
      [] OTHER -> <<Identity(size)>>

-----------------------------------------------------------------------------
(* Run simulator and cycle finder *)

RECURSIVE RunWordLoop(_, _, _, _)
RunWordLoop(w, k, current, tbl) ==
    IF k > Len(w) THEN Some([state |-> current])
    ELSE LET next == Step(tbl, current, w[k])
         IN  IF next = NoTarget THEN Null
             ELSE RunWordLoop(w, k + 1, next, tbl)

RunWord(w, start, tbl) == RunWordLoop(w, 1, start, tbl)

\* the key `${state}|${pos}`
CycleKey(state, pos) == NumStr(state) \o <<"|">> \o NumStr(pos)

RECURSIVE CycleLoop(_, _, _, _, _, _)
\* findPeriodicCycle's while (true); seen maps a key to an index of path
CycleLoop(loopWord, tbl, state, pos, path, seen) ==
    LET key == CycleKey(state, pos)
    IN  IF key \in DOMAIN seen
        THEN LET start == seen[key]
                 cycleStates == SubSeq(path, start + 1, Len(path))
             IN  Some([cycleStates |-> cycleStates,
                       reason |-> IF Len(cycleStates) > 0
                                  THEN "Cycle detected while repeating the loop word."
                                  ELSE "No cycle detected."])
        ELSE LET next == Step(tbl, state, loopWord[pos + 1])
             IN  IF next = NoTarget THEN Null
                 ELSE CycleLoop(loopWord, tbl, next,
                                (pos + 1) % Len(loopWord),
                                Append(path, next),
                                (key :> (Len(path) - 1)) @@ seen)

FindPeriodicCycle(entryState, loopWord, tbl) ==
    IF Len(loopWord) = 0
    THEN Some([cycleStates |-> <<entryState>>,
               reason |-> "Empty loop word; stay in the entry state."])
    ELSE CycleLoop(loopWord, tbl, entryState, 0, <<entryState>>, <<>>)

-----------------------------------------------------------------------------
(* Inputs of dbaEvaluateOmegaWord *)

MaxStates == 2

StateNames == <<"q0", "q1", "q2", "q3">>

Alphabet == <<"a", "b">>

\* (state, symbol) in declaration order: state 1 on a, state 1 on b, ...
PairAt(k) == <<((k - 1) \div Len(Alphabet)) + 1,
               Alphabet[((k - 1) % Len(Alphabet)) + 1]>>

RECURSIVE TransitionsOf(_, _, _)
\* The transition list of the partial function delta (0: no transition).
TransitionsOf(states, delta, k) ==
    IF k > Len(states) * Len(Alphabet) THEN <<>>
    ELSE LET p == PairAt(k)
         IN  (IF delta[k] = 0 THEN <<>>
              ELSE <<[from |-> states[p[1]], symbol |-> p[2],
                      to |-> states[delta[k]]]>>)
             \o TransitionsOf(states, delta, k + 1)

\* Every automaton over {a, b} with the first n state names and a partial
\* transition function, with any accepting set, whose initial state is one
\* of its states or the undeclared name qx.
AutomataOfSize(n) ==
    LET states == SubSeq(StateNames, 1, n)
    IN  {[states |-> states,
          alphabet |-> Alphabet,
          initial |-> init,
          accepting |-> acc,
          transitions |-> TransitionsOf(states, delta, 1)] :
            init \in Range(states) \cup {"qx"},
            acc \in SUBSET Range(states),
            delta \in [1..(n * Len(Alphabet)) -> 0..n]}

Tr(f, s, t) == [from |-> f, symbol |-> s, to |-> t]

\* Hand-written automata: a duplicated (state, symbol) pair, a transition
\* whose endpoint is not a declared state, and the 3-cycle on which ab and
\* ba induce the same map.
ExtraAutomata ==
    {[states |-> <<"q0", "q1">>, alphabet |-> Alphabet, initial |-> "q0",
      accepting |-> {"q1"},
      transitions |-> <<Tr("q0", "a", "q0"), Tr("q0", "a", "q1"),
                        Tr("q1", "a", "q1"), Tr("q1", "b", "q0")>>],
     [states |-> <<"q0", "q1">>, alphabet |-> Alphabet, initial |-> "q0",
      accepting |-> {"q0"},
      transitions |-> <<Tr("q0", "a", "q1"), Tr("q1", "a", "q9"),
                        Tr("q9", "b", "q0"), Tr("q1", "b", "q0")>>],
     [states |-> <<"q0", "q1", "q2">>, alphabet |-> Alphabet, initial |-> "q0",
      accepting |-> {"q1"},
      transitions |-> <<Tr("q0", "a", "q1"), Tr("q1", "a", "q2"),
                        Tr("q2", "a", "q0"), Tr("q0", "b", "q2"),
                        Tr("q1", "b", "q0"), Tr("q2", "b", "q1")>>]}

Automata(maxStates) ==
    UNION {AutomataOfSize(n) : n \in 0..maxStates} \cup ExtraAutomata

\* Prefix and loop expressions as the parser builds them: one-character
\* literals, concat and union of at least two nodes.
PrefixCatalogue ==
    {NoNode, Lit("a"), Lit("b"), Cat(<<Lit("a"), Lit("b")>>),
     Alt(<<Lit("a"), Lit("b")>>), Alt(<<Lit("b"), Lit("a")>>),
     Star(Lit("a"))}

LoopCatalogue ==
    {Lit("a"), Lit("b"), Cat(<<Lit("a"), Lit("b")>>),
     Alt(<<Lit("b"), Cat(<<Lit("a"), Lit("a")>>)>>),
     Alt(<<Lit("a"), Lit("b")>>), Star(Lit("a")), Plus(Lit("b")),
     Lit("c")}

Words == {[prefix |-> p, omega |-> l] : p \in PrefixCatalogue, l \in LoopCatalogue}

-----------------------------------------------------------------------------
(* dbaEvaluateOmegaWord, src/shared/dba.ts lines 22-156 *)

InitialMissingResult(a) ==
    [accepted |-> FALSE, cycle |-> <<>>, prefixWord |-> <<>>,
     loopWord |-> <<>>, entryState |-> a.initial,
     reason |-> "Initial state is not part of the automaton."]

PrefixStuckResult(a, prefix) ==
    [accepted |-> FALSE, cycle |-> <<>>, prefixWord |-> prefix.word,
     loopWord |-> <<>>, entryState |-> a.initial,
     reason |-> "Prefix causes the run to get stuck."]

LoopStuckResult(a, prefix, loop, state) ==
    [accepted |-> FALSE, cycle |-> <<>>, prefixWord |-> prefix.word,
     loopWord |-> loop.word, entryState |-> IndexToState(a.states, state),
     reason |-> "Loop causes the run to get stuck."]

\* HasAccepting that looks at the first state of the cycle only
HasAcceptingFirstOnly(a, cycleStates) ==
    /\ Len(cycleStates) > 0
    /\ IndexToState(a.states, cycleStates[1]) \in a.accepting

\* loopCycle.cycleStates.some((idx) => acceptingSet.has(indexToState[idx]))
HasAccepting(a, cycleStates) ==
    \E k \in DOMAIN cycleStates :
        IndexToState(a.states, cycleStates[k]) \in a.accepting

\* CycleResult that reports the initial state as the entry state
CycleResultEntryInitial(a, prefix, loop, state, loopCycle) ==
    [accepted |-> HasAccepting(a, loopCycle.cycleStates),
     cycle |-> [k \in DOMAIN loopCycle.cycleStates |->
                   IndexToState(a.states, loopCycle.cycleStates[k])],
     prefixWord |-> prefix.word, loopWord |-> loop.word,
     entryState |-> a.initial,
     reason |-> loopCycle.reason]

CycleResult(a, prefix, loop, state, loopCycle) ==
    [accepted |-> HasAccepting(a, loopCycle.cycleStates),
     cycle |-> [k \in DOMAIN loopCycle.cycleStates |->
                   IndexToState(a.states, loopCycle.cycleStates[k])],
     prefixWord |-> prefix.word, loopWord |-> loop.word,
     entryState |-> IndexToState(a.states, state),
     reason |-> loopCycle.reason]

NoLoopResult(a, prefix, state, saw) ==
    [accepted |-> FALSE, cycle |-> <<>>, prefixWord |-> prefix.word,
     loopWord |-> <<>>, entryState |-> IndexToState(a.states, state),
     reason |-> IF saw THEN "All cycles for this prefix avoid accepting states."
                ELSE "No valid loop for this prefix."]

NoValidRunResult(a, idx) ==
    [accepted |-> FALSE, cycle |-> <<>>, prefixWord |-> <<>>,
     loopWord |-> <<>>, entryState |-> IndexToState(a.states, idx),
     reason |-> "No valid run for the given ω-word (stuck on a transition)."]

EInit ==
    /\ automaton \in Automata(MaxStates)
    /\ word \in Words
    /\ epc = "start"
    /\ table = <<>>
    /\ prefixTransforms = <<>>
    /\ loopTransforms = <<>>
    /\ initialIndex = Null
    /\ pi = 0
    /\ li = 0
    /\ prefixRun = Null
    /\ acceptingForPrefix = Null
    /\ firstNonAccepting = Null
    /\ sawLoop = FALSE
    /\ sampleAccept = Null
    /\ result = Null
    /\ runCalls = {}
    /\ cycleCalls = {}

\* EvalStart without the early return of lines 47-56: a missing initial
\* state falls back to index 0.
EvalStartDefaultIndex ==
    /\ epc = "start"
    /\ LET lt == BuildLetterTransforms(automaton)
           size == Len(automaton.states)
           idx == StateToIndex(automaton.states, automaton.initial)
       IN  /\ table' = BuildStep(automaton)
           /\ prefixTransforms' = EvaluateRegex(word.prefix, lt, size)
           /\ loopTransforms' = EvaluateRegex(word.omega, lt, size)
           /\ initialIndex' = IF idx = Null THEN Some(0) ELSE idx
           /\ result' = result
           /\ epc' = "prefix"
    /\ UNCHANGED <<automaton, word, pi, li, prefixRun, acceptingForPrefix,
                   firstNonAccepting, sawLoop, sampleAccept, runCalls,
                   cycleCalls>>

\* lines 26-58: the tables, the candidate sets and the initial-state check
EvalStart ==
    /\ epc = "start"
    /\ LET lt == BuildLetterTransforms(automaton)
           size == Len(automaton.states)
           idx == StateToIndex(automaton.states, automaton.initial)
       IN  /\ table' = BuildStep(automaton)
           /\ prefixTransforms' = EvaluateRegex(word.prefix, lt, size)
           /\ loopTransforms' = EvaluateRegex(word.omega, lt, size)
           /\ initialIndex' = idx
           /\ IF idx = Null
              THEN /\ result' = Some(InitialMissingResult(automaton))
                   /\ epc' = "done"
              ELSE /\ result' = result
                   /\ epc' = "prefix"
    /\ UNCHANGED <<automaton, word, pi, li, prefixRun, acceptingForPrefix,
                   firstNonAccepting, sawLoop, sampleAccept, runCalls,
                   cycleCalls>>

\* EvalPrefix with `continue` in place of the return of lines 63-72: a stuck
\* prefix candidate is skipped.
EvalPrefixContinue ==
    /\ epc = "prefix"
    /\ pi < Len(prefixTransforms)
    /\ LET prefix == prefixTransforms[pi + 1]
           run == RunWord(prefix.word, initialIndex[1], table)
       IN  /\ runCalls' = runCalls \cup {pi}
           /\ prefixRun' = run
           /\ IF run = Null
              THEN /\ pi' = pi + 1
                   /\ epc' = "prefix"
                   /\ UNCHANGED <<acceptingForPrefix, firstNonAccepting,
                                  sawLoop, li>>
              ELSE /\ acceptingForPrefix' = Null
                   /\ firstNonAccepting' = Null
                   /\ sawLoop' = FALSE
                   /\ li' = 0
                   /\ pi' = pi
                   /\ epc' = IF Len(loopTransforms) = 0 THEN "after" ELSE "loop"
    /\ UNCHANGED <<automaton, word, table, prefixTransforms, loopTransforms,
                   initialIndex, sampleAccept, cycleCalls, result>>

\* lines 60-76: the next prefix candidate is run from the initial state
EvalPrefix ==
    /\ epc = "prefix"
    /\ pi < Len(prefixTransforms)
    /\ LET prefix == prefixTransforms[pi + 1]
           run == RunWord(prefix.word, initialIndex[1], table)
       IN  /\ runCalls' = runCalls \cup {pi}
           /\ prefixRun' = run
           /\ IF run = Null
              THEN /\ result' = Some(PrefixStuckResult(automaton, prefix))
                   /\ epc' = "done"
                   /\ UNCHANGED <<acceptingForPrefix, firstNonAccepting,
                                  sawLoop, li>>
              ELSE /\ acceptingForPrefix' = Null
                   /\ firstNonAccepting' = Null
                   /\ sawLoop' = FALSE
                   /\ li' = 0
                   /\ epc' = IF Len(loopTransforms) = 0 THEN "after" ELSE "loop"
                   /\ result' = result
    /\ UNCHANGED <<automaton, word, table, prefixTransforms, loopTransforms,
                   initialIndex, pi, sampleAccept, cycleCalls>>

\* EvalLoop with `break` in place of the `continue` of line 93: a stuck loop
\* candidate ends the loop over the loop candidates of this prefix.
EvalLoopStuckBreaks ==
    /\ epc = "loop"
    /\ li < Len(loopTransforms)
    /\ LET prefix == prefixTransforms[pi + 1]
           loop == loopTransforms[li + 1]
           state == prefixRun[1].state
           loopCycle == FindPeriodicCycle(state, loop.word, table)
           more == IF li + 1 < Len(loopTransforms) THEN "loop" ELSE "after"
       IN  /\ cycleCalls' = cycleCalls \cup {<<pi, li>>}
           /\ IF loopCycle = Null
              THEN /\ firstNonAccepting' =
                          IF firstNonAccepting = Null
                          THEN Some(LoopStuckResult(automaton, prefix, loop, state))
                          ELSE firstNonAccepting
                   /\ li' = li + 1
                   /\ epc' = "after"
                   /\ UNCHANGED <<sawLoop, acceptingForPrefix>>
              ELSE LET res == CycleResult(automaton, prefix, loop, state,
                                          loopCycle[1])
                   IN  /\ sawLoop' = TRUE
                       /\ IF res.accepted
                          THEN /\ acceptingForPrefix' = Some(res)
                               /\ epc' = "after"
                               /\ UNCHANGED <<firstNonAccepting, li>>
                          ELSE /\ firstNonAccepting' =
                                      IF firstNonAccepting = Null
                                      THEN Some(res)
                                      ELSE firstNonAccepting
                               /\ li' = li + 1
                               /\ epc' = more
                               /\ UNCHANGED acceptingForPrefix
    /\ UNCHANGED <<automaton, word, table, prefixTransforms, loopTransforms,
                   initialIndex, pi, prefixRun, sampleAccept, result, runCalls>>

\* lines 78-123: one iteration of the loop over the loop candidates
EvalLoop ==
    /\ epc = "loop"
    /\ li < Len(loopTransforms)
    /\ LET prefix == prefixTransforms[pi + 1]
           loop == loopTransforms[li + 1]
           state == prefixRun[1].state
           loopCycle == FindPeriodicCycle(state, loop.word, table)
           more == IF li + 1 < Len(loopTransforms) THEN "loop" ELSE "after"
       IN  /\ cycleCalls' = cycleCalls \cup {<<pi, li>>}
           /\ IF loopCycle = Null
              THEN /\ firstNonAccepting' =
                          IF firstNonAccepting = Null
                          THEN Some(LoopStuckResult(automaton, prefix, loop, state))
                          ELSE firstNonAccepting
                   /\ li' = li + 1
                   /\ epc' = more
                   /\ UNCHANGED <<sawLoop, acceptingForPrefix>>
              ELSE LET res == CycleResult(automaton, prefix, loop, state,
                                          loopCycle[1])
                   IN  /\ sawLoop' = TRUE
                       /\ IF res.accepted
                          THEN /\ acceptingForPrefix' = Some(res)
                               /\ epc' = "after"
                               /\ UNCHANGED <<firstNonAccepting, li>>
                          ELSE /\ firstNonAccepting' =
                                      IF firstNonAccepting = Null
                                      THEN Some(res)
                                      ELSE firstNonAccepting
                               /\ li' = li + 1
                               /\ epc' = more
                               /\ UNCHANGED acceptingForPrefix
    /\ UNCHANGED <<automaton, word, table, prefixTransforms, loopTransforms,
                   initialIndex, pi, prefixRun, sampleAccept, result, runCalls>>

\* lines 125-143: after the loop candidates of one prefix candidate
EvalAfterLoop ==
    /\ epc = "after"
    /\ IF acceptingForPrefix = Null
       THEN /\ result' =
                  IF firstNonAccepting # Null THEN firstNonAccepting
                  ELSE Some(NoLoopResult(automaton, prefixTransforms[pi + 1],
                                         prefixRun[1].state, sawLoop))
            /\ epc' = "done"
            /\ UNCHANGED <<pi, sampleAccept>>
       ELSE /\ sampleAccept' =
                  IF sampleAccept = Null THEN acceptingForPrefix
                  ELSE sampleAccept
            /\ pi' = pi + 1
            /\ epc' = "prefix"
            /\ result' = result
    /\ UNCHANGED <<automaton, word, table, prefixTransforms, loopTransforms,
                   initialIndex, li, prefixRun, acceptingForPrefix,
                   firstNonAccepting, sawLoop, runCalls, cycleCalls>>

\* lines 146-155: every prefix candidate has been examined
EvalReturn ==
    /\ epc = "prefix"
    /\ pi >= Len(prefixTransforms)
    /\ result' = IF sampleAccept # Null THEN sampleAccept
                 ELSE Some(NoValidRunResult(automaton, initialIndex[1]))
    /\ epc' = "done"
    /\ UNCHANGED <<automaton, word, table, prefixTransforms, loopTransforms,
                   initialIndex, pi, li, prefixRun, acceptingForPrefix,
                   firstNonAccepting, sawLoop, sampleAccept, runCalls,
                   cycleCalls>>

ENext == EvalStart \/ EvalPrefix \/ EvalLoop \/ EvalAfterLoop \/ EvalReturn

-----------------------------------------------------------------------------
(* The second dbaEvaluateOmegaWord, src/shared/dba.ts lines 452-519 *)

RECURSIVE SecondLoopCandidates(_, _, _, _, _, _, _)
\* lines 483-506: the loop over the loop candidates from position j (1-based);
\* returned is the result of the return at line 500, if it was taken
SecondLoopCandidates(a, tbl, prefix, state, loops, j, fallback) ==
    IF j > Len(loops) THEN [returned |-> Null, fallback |-> fallback]
    ELSE LET loop == loops[j]
             loopCycle == FindPeriodicCycle(state, loop.word, tbl)
         IN  IF loopCycle = Null
             THEN SecondLoopCandidates(a, tbl, prefix, state, loops, j + 1,
                                       fallback)
             ELSE LET res == CycleResult(a, prefix, loop, state, loopCycle[1])
                  IN  IF res.accepted
                      THEN [returned |-> Some(res), fallback |-> fallback]
                      ELSE SecondLoopCandidates(a, tbl, prefix, state, loops,
                               j + 1,
                               IF fallback = Null THEN Some(res) ELSE fallback)

RECURSIVE SecondPrefixCandidates(_, _, _, _, _, _, _)
\* lines 479-518: the loop over the prefix candidates from position i
\* (1-based) and the final return
SecondPrefixCandidates(a, tbl, idx, prefixes, loops, i, fallback) ==
    IF i > Len(prefixes)
    THEN IF fallback # Null THEN fallback[1] ELSE NoValidRunResult(a, idx)
    ELSE LET run == RunWord(prefixes[i].word, idx, tbl)
         IN  IF run = Null
             THEN SecondPrefixCandidates(a, tbl, idx, prefixes, loops, i + 1,
                                         fallback)
             ELSE LET r == SecondLoopCandidates(a, tbl, prefixes[i],
                                                run[1].state, loops, 1, fallback)
                  IN  IF r.returned # Null THEN r.returned[1]
                      ELSE SecondPrefixCandidates(a, tbl, idx, prefixes, loops,
                                                  i + 1, r.fallback)

\* lines 452-519
SecondDbaEvaluateOmegaWord(a, w) ==
    LET lt == BuildLetterTransforms(a)
        size == Len(a.states)
        idx == StateToIndex(a.states, a.initial)
    IN  IF idx = Null THEN InitialMissingResult(a)
        ELSE SecondPrefixCandidates(a, BuildStep(a), idx[1],
                                    EvaluateRegex(w.prefix, lt, size),
                                    EvaluateRegex(w.omega, lt, size), 1, Null)

\* the second definition is called on the arguments of a finished call of
\* the first
EvalSecondDefinition ==
    /\ epc = "done"
    /\ fout = Null
    /\ fout' = Some(SecondDbaEvaluateOmegaWord(automaton, word))
    /\ UNCHANGED <<fcall, flocal>>

-----------------------------------------------------------------------------
(* parseOmegaWord and the RegexParser, src/unnamed/part_000 lines 154-401 *)

WhiteSpace == {" ", "\t", "\n"}

Reserved == {"(", ")", "|", "*", "+", "^"}

\* isLiteralChar: a non-empty character that is neither reserved nor space
IsLiteralChar(char) ==
    char # "" /\ char \notin Reserved /\ char \notin WhiteSpace

\* peek / peekAhead: this.input[this.index + offset] ?? ""
PeekAt(inp, idx) == IF idx + 1 \in DOMAIN inp THEN inp[idx + 1] ELSE ""

IsAtEnd(inp, idx) == idx >= Len(inp)

RECURSIVE SkipWhitespace(_, _)
\* the cursor after skipWhitespace
SkipWhitespace(inp, idx) ==
    IF ~IsAtEnd(inp, idx) /\ PeekAt(inp, idx) \in WhiteSpace
    THEN SkipWhitespace(inp, idx + 1)
    ELSE idx

RECURSIVE TrimStart(_)
TrimStart(str) ==
    IF Len(str) > 0 /\ str[1] \in WhiteSpace THEN TrimStart(Tail(str)) ELSE str

RECURSIVE TrimEnd(_)
TrimEnd(str) ==
    IF Len(str) > 0 /\ str[Len(str)] \in WhiteSpace
    THEN TrimEnd(SubSeq(str, 1, Len(str) - 1))
    ELSE str

\* String.prototype.trim
Trim(str) == TrimEnd(TrimStart(str))

RECURSIVE CountOmegaNodes(_)
RECURSIVE CountOmegaSum(_, _)

\* node.nodes.reduce((sum, child) => sum + countOmegaNodes(child), 0)
CountOmegaSum(nodes, k) ==
    IF k > Len(nodes) THEN 0
    ELSE CountOmegaNodes(nodes[k]) + CountOmegaSum(nodes, k + 1)

\* countOmegaNodes without the recursion below an omega node
CountOmegaNodesShallow(node) ==
    IF node.kind = "null" THEN 0
    ELSE IF node.kind = "omega" THEN 1
    ELSE IF "node" \in DOMAIN node THEN CountOmegaNodes(node.node)
    ELSE IF "nodes" \in DOMAIN node THEN CountOmegaSum(node.nodes, 1)
    ELSE 0

CountOmegaNodes(node) ==
    IF node.kind = "null" THEN 0
    ELSE IF node.kind = "omega" THEN 1 + CountOmegaNodes(node.node)
    ELSE IF "node" \in DOMAIN node THEN CountOmegaNodes(node.node)
    ELSE IF "nodes" \in DOMAIN node THEN CountOmegaSum(node.nodes, 1)
    ELSE 0

\* extractOmegaComponents: <<>> for null, else <<[prefix, omega]>>
ExtractOmegaComponents(tree) ==
    IF tree.kind = "omega"
    THEN Some([prefix |-> NoNode, omega |-> tree.node])
    ELSE IF tree.kind = "concat" /\ Len(tree.nodes) > 0
    THEN LET nodes == tree.nodes
             last == nodes[Len(nodes)]
             prefixNodes == SubSeq(nodes, 1, Len(nodes) - 1)
         IN  IF last.kind # "omega" THEN Null
             ELSE Some([prefix |-> IF Len(prefixNodes) = 0 THEN NoNode
                                   ELSE IF Len(prefixNodes) = 1
                                   THEN prefixNodes[1]
                                   ELSE Cat(prefixNodes),
                        omega |-> last.node])
    ELSE Null

ParseError(message) == [ok |-> FALSE, error |-> message]

\* line 157
EmptyInputMessage == <<"Enter a non-empty ω-word (e.g., ab(ba)^w).">>

\* line 166
MissingOmegaMessage ==
    <<"Add a ^w suffix to mark the infinite loop (e.g., ab(ba)^w).">>

\* line 170
MultipleOmegaMessage == <<"Only one ^w (or ^ω) suffix is allowed.">>

\* line 175
NotTrailingMessage ==
    <<"Place the ^w suffix at the end so the word looks like αβ^w.">>

\* `Unexpected character "${char}" at position ${index}.`
UnexpectedCharacter(char, idx) ==
    <<"Unexpected character \"", char, "\" at position ">> \o NumStr(idx)
        \o <<".">>

\* An activation record of parseUnion, parseConcat, parseRepeat,
\* parsePrimary or parse: fn is the method, at the position inside it,
\* nodes the local array (branches or nodes), node and omegaApplied the
\* locals of parseRepeat; mark is history, the cursor when a loop iteration
\* began.
Frame(fn, at) ==
    [fn |-> fn, at |-> at, nodes |-> <<>>, node |-> NoNode,
     omegaApplied |-> FALSE, mark |-> 0]

Top == stack[Len(stack)]

Below == SubSeq(stack, 1, Len(stack) - 1)

\* the method on top of the stack is at position at
Running(fn, at) ==
    /\ ppc = "parsing"
    /\ Len(stack) > 0
    /\ Top.fn = fn
    /\ Top.at = at

\* one step inside the parser
ParserStep(newIndex, newStack, newRet) ==
    /\ index' = newIndex
    /\ stack' = newStack
    /\ ret' = newRet
    /\ psteps' = psteps + 1
    /\ UNCHANGED <<raw, ppc, input, ast, presult>>

\* the top method calls fn and continues at position at when it returns
Call(newIndex, top, fn) ==
    ParserStep(newIndex, Below \o <<top, Frame(fn, "entry")>>, Null)

\* the top method returns node
Return(newIndex, node) == ParserStep(newIndex, Below, Some(node))

\* throw new RegexParseError(message), caught at lines 179-183
Throw(message) ==
    /\ presult' = Some(ParseError(message))
    /\ ppc' = "done"
    /\ stack' = <<>>
    /\ ret' = Null
    /\ psteps' = psteps + 1
    /\ UNCHANGED <<raw, input, index, ast>>

\* lines 155-161: trim, the empty-input check, new RegexParser(trimmed)
ParseOmegaWordBegin ==
    /\ ppc = "init"
    /\ LET trimmed == Trim(raw)
       IN  IF Len(trimmed) = 0
           THEN /\ presult' =
                      Some(ParseError(EmptyInputMessage))
                /\ ppc' = "done"
                /\ UNCHANGED <<input, index, stack>>
           ELSE /\ input' = trimmed
                /\ index' = 0
                /\ stack' = <<Frame("parse", "entry")>>
                /\ ppc' = "parsing"
                /\ presult' = presult
    /\ psteps' = psteps + 1
    /\ UNCHANGED <<raw, ret, ast>>

\* lines 213-215: parse() up to the call of parseUnion
ParseEntry ==
    /\ Running("parse", "entry")
    /\ Call(SkipWhitespace(input, index), [Top EXCEPT !.at = "afterUnion"],
            "union")

\* lines 216-222: parse() after parseUnion
ParseReturn ==
    /\ Running("parse", "afterUnion")
    /\ LET idx == SkipWhitespace(input, index)
       IN  IF ~IsAtEnd(input, idx)
           THEN Throw(UnexpectedCharacter(PeekAt(input, idx), idx))
           ELSE /\ ast' = ret
                /\ ppc' = "parsed"
                /\ index' = idx
                /\ stack' = <<>>
                /\ ret' = Null
                /\ psteps' = psteps + 1
                /\ UNCHANGED <<raw, input, presult>>

\* line 226: parseUnion calls parseConcat for the first branch
UnionEntry ==
    /\ Running("union", "entry")
    /\ Call(index, [Top EXCEPT !.at = "afterConcat"], "concat")

\* lines 226-234: a branch is stored; either "|" is matched and the next
\* branch is parsed, or parseUnion returns
UnionAfterConcat ==
    /\ Running("union", "afterConcat")
    /\ LET branches == Append(Top.nodes, ret[1])
           idx == SkipWhitespace(input, index)
       IN  IF PeekAt(input, idx) = "|"
           THEN Call(idx + 1, [Top EXCEPT !.nodes = branches], "concat")
           ELSE Return(idx, IF Len(branches) = 1 THEN branches[1]
                            ELSE Alt(branches))

\* lines 238-239: parseConcat before its loop
ConcatEntry ==
    /\ Running("concat", "entry")
    /\ ParserStep(SkipWhitespace(input, index),
                  Below \o <<[Top EXCEPT !.at = "loop"]>>, Null)

\* lines 241-244 and 248-252: the loop test of parseConcat; either
\* parseRepeat is called or parseConcat throws or returns
ConcatLoop ==
    /\ Running("concat", "loop")
    /\ IF ~IsAtEnd(input, index) /\ PeekAt(input, index) \notin {")", "|"}
       THEN Call(index, [Top EXCEPT !.at = "afterRepeat", !.mark = index],
                 "repeat")
       ELSE IF Len(Top.nodes) = 0
       THEN Throw(<<"Missing expression before operator.">>)
       ELSE Return(index, IF Len(Top.nodes) = 1 THEN Top.nodes[1]
                          ELSE Cat(Top.nodes))

\* ConcatAfterRepeat that folds the items so far into a concat of their own
ConcatAfterRepeatNested ==
    /\ Running("concat", "afterRepeat")
    /\ ParserStep(SkipWhitespace(input, index),
                  Below \o <<[Top EXCEPT !.at = "loop",
                                         !.nodes = IF Len(@) = 0 THEN <<ret[1]>>
                                                   ELSE <<Cat(@ \o <<ret[1]>>)>>]>>,
                  Null)

\* lines 244-245: the node parseRepeat returned is stored
ConcatAfterRepeat ==
    /\ Running("concat", "afterRepeat")
    /\ ParserStep(SkipWhitespace(input, index),
                  Below \o <<[Top EXCEPT !.at = "loop",
                                         !.nodes = Append(@, ret[1])]>>,
                  Null)

\* line 256: parseRepeat calls parsePrimary
RepeatEntry ==
    /\ Running("repeat", "entry")
    /\ Call(index, [Top EXCEPT !.at = "afterPrimary"], "primary")

\* lines 256-257: the operand is stored
RepeatAfterPrimary ==
    /\ Running("repeat", "afterPrimary")
    /\ ParserStep(index,
                  Below \o <<[Top EXCEPT !.at = "loop", !.node = ret[1],
                                         !.omegaApplied = FALSE]>>,
                  Null)

\* RepeatLoop with the advance() of line 265 left out
RepeatLoopNoAdvance ==
    /\ Running("repeat", "loop")
    /\ LET idx == SkipWhitespace(input, index)
           char == PeekAt(input, idx)
           next == PeekAt(input, idx + 1)
       IN  IF Top.omegaApplied THEN Return(idx, Top.node)
           ELSE IF char \in {"*", "+"}
           THEN ParserStep(idx,
                    Below \o <<[Top EXCEPT !.node =
                                   IF char = "*" THEN Star(@) ELSE Plus(@)]>>,
                    Null)
           ELSE IF char = "^"
           THEN IF next \in {"w", "ω"}
                THEN ParserStep(idx + 2,
                         Below \o <<[Top EXCEPT !.node = Omega(@),
                                                !.omegaApplied = TRUE]>>,
                         Null)
                ELSE Throw(<<"Expected \"w\" or \"ω\" right after \"^\".">>)
           ELSE Return(idx, Top.node)

\* RepeatLoop without the `if (omegaApplied) break` of line 261
RepeatLoopAfterOmega ==
    /\ Running("repeat", "loop")
    /\ LET idx == SkipWhitespace(input, index)
           char == PeekAt(input, idx)
           next == PeekAt(input, idx + 1)
       IN  IF char \in {"*", "+"}
           THEN ParserStep(idx + 1,
                    Below \o <<[Top EXCEPT !.node =
                                   IF char = "*" THEN Star(@) ELSE Plus(@)]>>,
                    Null)
           ELSE IF char = "^"
           THEN IF next \in {"w", "ω"}
                THEN ParserStep(idx + 2,
                         Below \o <<[Top EXCEPT !.node = Omega(@),
                                                !.omegaApplied = TRUE]>>,
                         Null)
                ELSE Throw(<<"Expected \"w\" or \"ω\" right after \"^\".">>)
           ELSE Return(idx, Top.node)

\* lines 259-286: one iteration of the postfix loop of parseRepeat
RepeatLoop ==
    /\ Running("repeat", "loop")
    /\ LET idx == SkipWhitespace(input, index)
           char == PeekAt(input, idx)
           next == PeekAt(input, idx + 1)
       IN  IF Top.omegaApplied THEN Return(idx, Top.node)
           ELSE IF char \in {"*", "+"}
           THEN ParserStep(idx + 1,
                    Below \o <<[Top EXCEPT !.node =
                                   IF char = "*" THEN Star(@) ELSE Plus(@)]>>,
                    Null)
           ELSE IF char = "^"
           THEN IF next \in {"w", "ω"}
                THEN ParserStep(idx + 2,
                         Below \o <<[Top EXCEPT !.node = Omega(@),
                                                !.omegaApplied = TRUE]>>,
                         Null)
                ELSE Throw(<<"Expected \"w\" or \"ω\" right after \"^\".">>)
           ELSE Return(idx, Top.node)

\* lines 290-308 (with parseLiteral, lines 311-319): parsePrimary
PrimaryEntry ==
    /\ Running("primary", "entry")
    /\ LET idx == SkipWhitespace(input, index)
           char == PeekAt(input, idx)
       IN  IF char = "("
           THEN Call(idx + 1, [Top EXCEPT !.at = "afterUnion"], "union")
           ELSE IF IsLiteralChar(char)
           THEN Return(idx + 1, Lit(char))
           ELSE Throw(UnexpectedCharacter(char, idx))

\* lines 296-301: parsePrimary after the parenthesized parseUnion
PrimaryAfterUnion ==
    /\ Running("primary", "afterUnion")
    /\ LET idx == SkipWhitespace(input, index)
       IN  IF PeekAt(input, idx) # ")"
           THEN Throw(<<"Missing closing parenthesis.">>)
           ELSE Return(idx + 1, ret[1])

\* ParsePlacement without the omegaCount > 1 check of lines 169-171
ParsePlacementNoMultiCheck ==
    /\ ppc = "parsed"
    /\ LET omegaCount == CountOmegaNodes(ast[1])
           components == ExtractOmegaComponents(ast[1])
       IN  presult' =
              IF omegaCount = 0
              THEN Some(ParseError(MissingOmegaMessage))
              ELSE IF components = Null
              THEN Some(ParseError(NotTrailingMessage))
              ELSE Some([ok |-> TRUE,
                         word |-> [prefix |-> components[1].prefix,
                                   omega |-> components[1].omega,
                                   ast |-> ast[1]]])
    /\ ppc' = "done"
    /\ psteps' = psteps + 1
    /\ UNCHANGED <<raw, input, index, stack, ret, ast>>

\* lines 163-178: the placement validation of parseOmegaWord
ParsePlacement ==
    /\ ppc = "parsed"
    /\ LET omegaCount == CountOmegaNodes(ast[1])
           components == ExtractOmegaComponents(ast[1])
       IN  presult' =
              IF omegaCount = 0
              THEN Some(ParseError(MissingOmegaMessage))
              ELSE IF omegaCount > 1
              THEN Some(ParseError(MultipleOmegaMessage))
              ELSE IF components = Null
              THEN Some(ParseError(NotTrailingMessage))
              ELSE Some([ok |-> TRUE,
                         word |-> [prefix |-> components[1].prefix,
                                   omega |-> components[1].omega,
                                   ast |-> ast[1]]])
    /\ ppc' = "done"
    /\ psteps' = psteps + 1
    /\ UNCHANGED <<raw, input, index, stack, ret, ast>>

PNext ==
    \/ ParseOmegaWordBegin
    \/ ParseEntry
    \/ ParseReturn
    \/ UnionEntry
    \/ UnionAfterConcat
    \/ ConcatEntry
    \/ ConcatLoop
    \/ ConcatAfterRepeat
    \/ RepeatEntry
    \/ RepeatAfterPrimary
    \/ RepeatLoop
    \/ PrimaryEntry
    \/ PrimaryAfterUnion
    \/ ParsePlacement

MaxInputLen == 4

\* the characters of the exhaustively enumerated inputs
InputChars == {"a", "w", "(", ")", "|", "*", "+", "^", " "}

ShortInputs == UNION {[1..n -> InputChars] : n \in 0..MaxInputLen}

\* longer inputs: the examples of the documentation and one input per
\* placement and syntax case
SampleInputs ==
    {<<"a", "b", "(", "b", "a", ")", "^", "w">>,
     <<"(", "a", "b", ")", "^", "w", "|", "c">>,
     <<"(", "a", "^", "w", ")", "^", "w">>,
     <<"a", "^", "w", "b", "^", "w">>,
     <<"a", "^", "w", "|", "b", "^", "ω">>,
     <<"(", "a", "^", "w", ")", "*">>,
     <<"(", "a", "^", "w", ")", "b">>,
     <<"a", "(", "b", "^", "ω", ")">>,
     <<"a", "|", "b", "c", "*">>,
     <<"a", "b", "*", "^", "w">>,
     <<"a", "^", "w", "^", "w">>,
     <<"a", "^", "ω", "*">>,
     <<"a", "^", "w", " ", "+">>,
     <<" ", "a", " ", "b", "^", "w", "\t">>,
     <<"(", "a", "|", "b", ")", "*", "a", "^", "ω">>,
     <<"(", "(", "a", "|", "b", ")", "+", "c", ")", "(", "a", "b", ")", "^", "w">>,
     <<"(", "(", "(", "a", ")", ")", "^", "w">>,
     <<"a", "^", "b">>,
     <<"b", "^", "w">>,
     <<"a", " ", "b", "^", "w">>}

Inputs == ShortInputs \cup SampleInputs

PInit ==
    /\ raw \in Inputs
    /\ ppc = "init"
    /\ input = <<>>
    /\ index = 0
    /\ stack = <<>>
    /\ ret = Null
    /\ ast = Null
    /\ presult = Null
    /\ psteps = 0

\* the parser is not running
PIdle ==
    /\ raw = <<>>
    /\ ppc = "idle"
    /\ input = <<>>
    /\ index = 0
    /\ stack = <<>>
    /\ ret = Null
    /\ ast = Null
    /\ presult = Null
    /\ psteps = 0

\* the evaluation is not running
EIdle ==
    /\ automaton = [states |-> <<>>, alphabet |-> <<>>, initial |-> "",
                    accepting |-> {}, transitions |-> <<>>]
    /\ word = [prefix |-> NoNode, omega |-> NoNode]
    /\ epc = "idle"
    /\ table = <<>>
    /\ prefixTransforms = <<>>
    /\ loopTransforms = <<>>
    /\ initialIndex = Null
    /\ pi = 0
    /\ li = 0
    /\ prefixRun = Null
    /\ acceptingForPrefix = Null
    /\ firstNonAccepting = Null
    /\ sawLoop = FALSE
    /\ sampleAccept = Null
    /\ result = Null
    /\ runCalls = {}
    /\ cycleCalls = {}

-----------------------------------------------------------------------------
(* Calls of the helper functions of dba.ts, one call per behaviour *)

MaxBaseLen == 2

MaxLoopLen == 3

\* every map over size states; a state may be sent to -1
MapsOver(size) == [1..size -> (0..(size - 1)) \cup {NoTarget}]

\* a StateTransform with any map; its word names it
TransformsOver(size) == {[map |-> m, word |-> <<"x">>] : m \in MapsOver(size)}

\* every base of at most MaxBaseLen transforms over size states
BasesOver(size) ==
    UNION {[1..k -> TransformsOver(size)] : k \in 0..MaxBaseLen}

\* automata that differ in their transitions only
TransitionSystems(maxStates) ==
    {a \in Automata(maxStates) : a.accepting = {} /\ a.initial = "qx"}

\* the operands of star and plus
ChildCatalogue ==
    <<Lit("a"), Lit("b"), Lit("c"), Alt(<<Lit("a"), Lit("b")>>),
      Cat(<<Lit("a"), Lit("b")>>), Star(Lit("a")),
      Alt(<<Lit("b"), Cat(<<Lit("a"), Lit("a")>>)>>)>>

\* starClosure(base, size) on any base, and on the bases evaluateRegex
\* passes at lines 353-356
StarClosureCalls(maxStates) ==
    {[name |-> "starClosure", base |-> base, size |-> size, from |-> "any"] :
        <<base, size>> \in UNION {BasesOver(n) \X {n} : n \in 0..maxStates}}
    \cup
    {[name |-> "starClosure",
      base |-> EvaluateRegex(node, BuildLetterTransforms(a), Len(a.states)),
      size |-> Len(a.states), from |-> "evaluateRegex"] :
        a \in TransitionSystems(maxStates), node \in Range(ChildCatalogue)}

\* an automaton with a transition on b, which its alphabet does not list
NarrowAlphabet ==
    [states |-> <<"q0", "q1">>, alphabet |-> <<"a">>, initial |-> "q0",
     accepting |-> {},
     transitions |-> <<Tr("q0", "a", "q1"), Tr("q1", "b", "q0")>>]

\* the transition structures evaluateRegex is called on
RegexAutomata(maxStates) ==
    TransitionSystems(maxStates) \cup ExtraAutomata \cup {NarrowAlphabet}

\* expressions without omega: no prefix, literals (c is no symbol of the
\* alphabet), and concat, union, star and plus, nested
RegexCatalogue ==
    Range(ChildCatalogue) \cup
    {NoNode,
     Plus(Lit("b")),
     Star(Alt(<<Lit("a"), Lit("b")>>)),
     Plus(Alt(<<Lit("a"), Lit("b")>>)),
     Star(Cat(<<Lit("a"), Lit("b")>>)),
     Cat(<<Star(Lit("a")), Lit("b")>>),
     Cat(<<Lit("a"), Alt(<<Lit("b"), Lit("a")>>), Lit("a")>>),
     Alt(<<Cat(<<Lit("b"), Lit("a")>>), Lit("a"), Star(Lit("b"))>>),
     Plus(Alt(<<Lit("a"), Cat(<<Lit("b"), Lit("b")>>)>>)),
     Star(Star(Lit("a"))),
     Cat(<<Plus(Lit("a")), Star(Lit("b"))>>)}

\* evaluateRegex(node, buildLetterTransforms(automaton), states.length)
EvaluateRegexCalls(maxStates) ==
    {[name |-> "evaluateRegex", node |-> node, automaton |-> a] :
        node \in RegexCatalogue, a \in RegexAutomata(maxStates)}

\* the loop words findPeriodicCycle is called on: every word over the
\* alphabet of at most maxLen symbols, and one with a foreign symbol
LoopWords(maxLen) ==
    UNION {[1..n -> Range(Alphabet)] : n \in 0..maxLen} \cup {<<"a", "c">>}

\* an automaton whose run on (ab)^w leaves q0 for good and then alternates
\* between q1, entered in the middle of the loop word, and q2
Lasso ==
    [states |-> <<"q0", "q1", "q2">>, alphabet |-> Alphabet, initial |-> "q0",
     accepting |-> {},
     transitions |-> <<Tr("q0", "a", "q1"), Tr("q1", "b", "q2"),
                       Tr("q2", "a", "q1"), Tr("q2", "b", "q0")>>]

\* findPeriodicCycle(entryState, loopWord, buildStep(automaton))
FindPeriodicCycleCalls(maxStates, maxLen) ==
    {[name |-> "findPeriodicCycle", entryState |-> e, loopWord |-> w,
      automaton |-> a] :
        <<a, e>> \in UNION {{a} \X (0..(Len(a.states) - 1)) :
                               a \in RegexAutomata(maxStates) \cup {Lasso}},
        w \in LoopWords(maxLen)}

MaxTransitions == 3

\* the names a transition may carry: the declared states and q9, which is
\* not declared
EndpointNames == {"q0", "q1", "q9"}

\* every transition list of at most maxLen entries, duplicates of a
\* (state, symbol) pair and undeclared endpoints included
TransitionLists(maxLen) ==
    UNION {[1..n -> {Tr(f, x, t) : f \in EndpointNames, x \in Range(Alphabet),
                                  t \in EndpointNames}] : n \in 0..maxLen}

\* buildStep(automaton, stateToIndex) and
\* buildLetterTransforms(automaton, stateToIndex), called as at lines 30-31
CompileCalls(maxLen) ==
    {[name |-> "compile",
      automaton |-> [states |-> <<"q0", "q1">>, alphabet |-> Alphabet,
                     initial |-> "q0", accepting |-> {},
                     transitions |-> ts]] : ts \in TransitionLists(maxLen)}

FnCalls(maxStates) ==
    StarClosureCalls(maxStates) \cup EvaluateRegexCalls(maxStates)
    \cup FindPeriodicCycleCalls(maxStates, MaxLoopLen)
    \cup CompileCalls(MaxTransitions)

\* no helper is running
FIdle ==
    /\ fcall = [name |-> "none"]
    /\ flocal = Null
    /\ fout = Null

FInit ==
    /\ fcall \in FnCalls(MaxStates)
    /\ flocal = Null
    /\ fout = Null

\* dba.ts lines 30-31: both outputs of the transition compiler
CallCompile ==
    /\ fcall.name = "compile"
    /\ fout = Null
    /\ fout' = Some([table |-> BuildStep(fcall.automaton),
                     letterTransforms |-> BuildLetterTransforms(fcall.automaton)])
    /\ UNCHANGED <<fcall, flocal>>

\* dba.ts lines 418-436
CallStarClosure ==
    /\ fcall.name = "starClosure"
    /\ fout = Null
    /\ fout' = Some(StarClosure(fcall.base, fcall.size))
    /\ UNCHANGED <<fcall, flocal>>

\* dba.ts lines 330-367, called as at lines 34-43
CallEvaluateRegex ==
    /\ fcall.name = "evaluateRegex"
    /\ fout = Null
    /\ fout' = Some(EvaluateRegex(fcall.node,
                                  BuildLetterTransforms(fcall.automaton),
                                  Len(fcall.automaton.states)))
    /\ UNCHANGED <<fcall, flocal>>

\* lines 289-299: the empty loop word, or the locals before the loop
FpcBegin ==
    /\ fcall.name = "findPeriodicCycle"
    /\ flocal = Null
    /\ fout = Null
    /\ IF Len(fcall.loopWord) = 0
       THEN /\ fout' = Some(Some([cycleStates |-> <<fcall.entryState>>,
                                  reason |-> "Empty loop word; stay in the entry state."]))
            /\ flocal' = flocal
       ELSE /\ flocal' = Some([seen |-> <<>>, path |-> <<fcall.entryState>>,
                               state |-> fcall.entryState, pos |-> 0,
                               steps |-> 0])
            /\ fout' = fout
    /\ UNCHANGED fcall

\* FpcIterate without the seen.set(key, path.length - 1) of line 311
FpcIterateNoSeen ==
    /\ fcall.name = "findPeriodicCycle"
    /\ flocal # Null
    /\ fout = Null
    /\ LET l == flocal[1]
           next == Step(BuildStep(fcall.automaton), l.state,
                        fcall.loopWord[l.pos + 1])
       IN  IF next = NoTarget
           THEN /\ fout' = Some(Null)
                /\ flocal' = Some([l EXCEPT !.steps = @ + 1])
           ELSE /\ flocal' = Some([l EXCEPT
                                     !.state = next,
                                     !.path = Append(@, next),
                                     !.pos = (l.pos + 1) % Len(fcall.loopWord),
                                     !.steps = @ + 1])
                /\ fout' = fout
    /\ UNCHANGED fcall

\* FpcIterate that returns path.slice(start, -1): the cycle without the
\* entry at which the repeat was detected
FpcIterateDropLast ==
    /\ fcall.name = "findPeriodicCycle"
    /\ flocal # Null
    /\ fout = Null
    /\ LET l == flocal[1]
           key == CycleKey(l.state, l.pos)
       IN  IF key \in DOMAIN l.seen
           THEN LET start == l.seen[key]
                    cycleStates == SubSeq(l.path, start + 1, Len(l.path) - 1)
                IN  /\ fout' = Some(Some(
                            [cycleStates |-> cycleStates,
                             reason |-> IF Len(cycleStates) > 0
                                        THEN "Cycle detected while repeating the loop word."
                                        ELSE "No cycle detected."]))
                    /\ flocal' = flocal
           ELSE LET next == Step(BuildStep(fcall.automaton), l.state,
                                 fcall.loopWord[l.pos + 1])
                    seen == (key :> (Len(l.path) - 1)) @@ l.seen
                IN  IF next = NoTarget
                    THEN /\ fout' = Some(Null)
                         /\ flocal' = Some([l EXCEPT !.seen = seen,
                                                     !.steps = @ + 1])
                    ELSE /\ flocal' = Some([l EXCEPT
                                              !.seen = seen,
                                              !.state = next,
                                              !.path = Append(@, next),
                                              !.pos = (l.pos + 1) % Len(fcall.loopWord),
                                              !.steps = @ + 1])
                         /\ fout' = fout
    /\ UNCHANGED fcall

\* FpcIterate that returns the whole path instead of path.slice(start)
FpcIterateWholePath ==
    /\ fcall.name = "findPeriodicCycle"
    /\ flocal # Null
    /\ fout = Null
    /\ LET l == flocal[1]
           key == CycleKey(l.state, l.pos)
       IN  IF key \in DOMAIN l.seen
           THEN /\ fout' = Some(Some(
                        [cycleStates |-> l.path,
                         reason |-> "Cycle detected while repeating the loop word."]))
                /\ flocal' = flocal
           ELSE LET next == Step(BuildStep(fcall.automaton), l.state,
                                 fcall.loopWord[l.pos + 1])
                    seen == (key :> (Len(l.path) - 1)) @@ l.seen
                IN  IF next = NoTarget
                    THEN /\ fout' = Some(Null)
                         /\ flocal' = Some([l EXCEPT !.seen = seen,
                                                     !.steps = @ + 1])
                    ELSE /\ flocal' = Some([l EXCEPT
                                              !.seen = seen,
                                              !.state = next,
                                              !.path = Append(@, next),
                                              !.pos = (l.pos + 1) % Len(fcall.loopWord),
                                              !.steps = @ + 1])
                         /\ fout' = fout
    /\ UNCHANGED fcall

\* lines 301-320: one iteration of while (true); steps counts the
\* applications of step
FpcIterate ==
    /\ fcall.name = "findPeriodicCycle"
    /\ flocal # Null
    /\ fout = Null
    /\ LET l == flocal[1]
           key == CycleKey(l.state, l.pos)
       IN  IF key \in DOMAIN l.seen
           THEN LET start == l.seen[key]
                    cycleStates == SubSeq(l.path, start + 1, Len(l.path))
                IN  /\ fout' = Some(Some(
                            [cycleStates |-> cycleStates,
                             reason |-> IF Len(cycleStates) > 0
                                        THEN "Cycle detected while repeating the loop word."
                                        ELSE "No cycle detected."]))
                    /\ flocal' = flocal
           ELSE LET next == Step(BuildStep(fcall.automaton), l.state,
                                 fcall.loopWord[l.pos + 1])
                    seen == (key :> (Len(l.path) - 1)) @@ l.seen
                IN  IF next = NoTarget
                    THEN /\ fout' = Some(Null)
                         /\ flocal' = Some([l EXCEPT !.seen = seen,
                                                     !.steps = @ + 1])
                    ELSE /\ flocal' = Some([l EXCEPT
                                              !.seen = seen,
                                              !.state = next,
                                              !.path = Append(@, next),
                                              !.pos = (l.pos + 1) % Len(fcall.loopWord),
                                              !.steps = @ + 1])
                         /\ fout' = fout
    /\ UNCHANGED fcall

FNext ==
    CallStarClosure \/ CallEvaluateRegex \/ FpcBegin \/ FpcIterate
    \/ CallCompile

-----------------------------------------------------------------------------
(* The word check of BuchiWorkspace.tsx, lines 25-62: each edit of the     *)
(* word or of the automaton parses the word and evaluates it               *)

MaxCalls == 3

\* sample "pure-b", buchi.ts lines 53-66
PureB ==
    [states |-> <<"q0", "q_bad">>, alphabet |-> Alphabet, initial |-> "q0",
     accepting |-> {"q0"},
     transitions |-> <<Tr("q0", "b", "q0"), Tr("q0", "a", "q_bad"),
                       Tr("q_bad", "a", "q_bad"), Tr("q_bad", "b", "q_bad")>>]

\* sample "finitely-many-a", buchi.ts lines 39-52
FinitelyManyA ==
    [states |-> <<"q0", "q1">>, alphabet |-> Alphabet, initial |-> "q0",
     accepting |-> {"q1"},
     transitions |-> <<Tr("q0", "a", "q0"), Tr("q0", "b", "q1"),
                       Tr("q1", "a", "q0"), Tr("q1", "b", "q1")>>]

SessionAutomata == {PureB, FinitelyManyA}

\* the words typed into the word field
SessionInputs ==
    {<<"b", "^", "w">>,
     <<"a", "b", "^", "w">>,
     <<"(", "a", "b", ")", "^", "w">>,
     <<"a", " ", "b", "^", "w">>,
     <<"(", "a", "|", "b", ")", "b", "^", "w">>,
     <<"a", "b">>}

\* EvalFresh with sampleAccept kept from the call before, as a variable of
\* the module would be
EvalFreshKeepSample ==
    /\ epc' = "start"
    /\ table' = <<>>
    /\ prefixTransforms' = <<>>
    /\ loopTransforms' = <<>>
    /\ initialIndex' = Null
    /\ pi' = 0
    /\ li' = 0
    /\ prefixRun' = Null
    /\ acceptingForPrefix' = Null
    /\ firstNonAccepting' = Null
    /\ sawLoop' = FALSE
    /\ sampleAccept' = sampleAccept
    /\ result' = Null
    /\ runCalls' = {}
    /\ cycleCalls' = {}

\* the locals of dbaEvaluateOmegaWord as a call starts
EvalFresh ==
    /\ epc' = "start"
    /\ table' = <<>>
    /\ prefixTransforms' = <<>>
    /\ loopTransforms' = <<>>
    /\ initialIndex' = Null
    /\ pi' = 0
    /\ li' = 0
    /\ prefixRun' = Null
    /\ acceptingForPrefix' = Null
    /\ firstNonAccepting' = Null
    /\ sawLoop' = FALSE
    /\ sampleAccept' = Null
    /\ result' = Null
    /\ runCalls' = {}
    /\ cycleCalls' = {}

\* no word has been evaluated since the last edit
EvalWaiting ==
    /\ word = [prefix |-> NoNode, omega |-> NoNode]
    /\ epc = "idle"
    /\ table = <<>>
    /\ prefixTransforms = <<>>
    /\ loopTransforms = <<>>
    /\ initialIndex = Null
    /\ pi = 0
    /\ li = 0
    /\ prefixRun = Null
    /\ acceptingForPrefix = Null
    /\ firstNonAccepting = Null
    /\ sawLoop = FALSE
    /\ sampleAccept = Null
    /\ result = Null
    /\ runCalls = {}
    /\ cycleCalls = {}

SInit ==
    /\ raw \in SessionInputs
    /\ ppc = "init"
    /\ input = <<>>
    /\ index = 0
    /\ stack = <<>>
    /\ ret = Null
    /\ ast = Null
    /\ presult = Null
    /\ psteps = 0
    /\ automaton \in SessionAutomata
    /\ EvalWaiting
    /\ log = <<>>

\* lines 38-44: a successfully parsed word is evaluated
SessionEvaluate ==
    /\ ppc = "done"
    /\ presult # Null
    /\ presult[1].ok
    /\ epc \in {"idle", "reported"}
    /\ ppc' = "evaluated"
    /\ word' = presult[1].word
    /\ EvalFresh
    /\ UNCHANGED <<automaton, raw, input, index, stack, ret, ast, presult,
                   psteps, log>>

\* lines 45-61: the evaluation is shown
SessionReport ==
    /\ epc = "done"
    /\ result # Null
    /\ epc' = "reported"
    /\ log' = Append(log, [automaton |-> automaton, word |-> word,
                           result |-> result[1]])
    /\ UNCHANGED <<automaton, word, table, prefixTransforms, loopTransforms,
                   initialIndex, pi, li, prefixRun, acceptingForPrefix,
                   firstNonAccepting, sawLoop, sampleAccept, result,
                   runCalls, cycleCalls, pvars>>

\* line 62: the effect runs again when the word or the automaton changes
SessionEdit ==
    /\ \/ ppc = "done" /\ presult # Null /\ ~presult[1].ok
       \/ ppc = "evaluated" /\ epc = "reported"
    /\ Len(log) < MaxCalls
    /\ raw' \in SessionInputs
    /\ automaton' \in SessionAutomata
    /\ ppc' = "init"
    /\ input' = <<>>
    /\ index' = 0
    /\ stack' = <<>>
    /\ ret' = Null
    /\ ast' = Null
    /\ presult' = Null
    /\ psteps' = 0
    /\ UNCHANGED <<word, epc, table, prefixTransforms, loopTransforms,
                   initialIndex, pi, li, prefixRun, acceptingForPrefix,
                   firstNonAccepting, sawLoop, sampleAccept, result,
                   runCalls, cycleCalls, log>>

-----------------------------------------------------------------------------
(* Specifications *)

vars == <<evars, pvars, fvars, log>>

\* no evaluation has finished
NoLog == log = <<>>

\* one call of dbaEvaluateOmegaWord on any automaton and word
Init == EInit /\ PIdle /\ FIdle /\ NoLog

Next ==
    \/ EvalStart /\ UNCHANGED <<pvars, fvars, log>>
    \/ EvalPrefix /\ UNCHANGED <<pvars, fvars, log>>
    \/ EvalLoop /\ UNCHANGED <<pvars, fvars, log>>
    \/ EvalAfterLoop /\ UNCHANGED <<pvars, fvars, log>>
    \/ EvalReturn /\ UNCHANGED <<pvars, fvars, log>>

Spec == Init /\ [][Next]_vars

\* one call of parseOmegaWord on any input string
InitParse == PInit /\ EIdle /\ FIdle /\ NoLog

NextParse ==
    \/ ParseOmegaWordBegin /\ UNCHANGED <<evars, fvars, log>>
    \/ ParseEntry /\ UNCHANGED <<evars, fvars, log>>
    \/ ParseReturn /\ UNCHANGED <<evars, fvars, log>>
    \/ UnionEntry /\ UNCHANGED <<evars, fvars, log>>
    \/ UnionAfterConcat /\ UNCHANGED <<evars, fvars, log>>
    \/ ConcatEntry /\ UNCHANGED <<evars, fvars, log>>
    \/ ConcatLoop /\ UNCHANGED <<evars, fvars, log>>
    \/ ConcatAfterRepeat /\ UNCHANGED <<evars, fvars, log>>
    \/ RepeatEntry /\ UNCHANGED <<evars, fvars, log>>
    \/ RepeatAfterPrimary /\ UNCHANGED <<evars, fvars, log>>
    \/ RepeatLoop /\ UNCHANGED <<evars, fvars, log>>
    \/ PrimaryEntry /\ UNCHANGED <<evars, fvars, log>>
    \/ PrimaryAfterUnion /\ UNCHANGED <<evars, fvars, log>>
    \/ ParsePlacement /\ UNCHANGED <<evars, fvars, log>>

SpecParse == InitParse /\ [][NextParse]_vars

\* one call of a helper function on any arguments
InitFn == FInit /\ EIdle /\ PIdle /\ NoLog

NextFn ==
    \/ CallStarClosure /\ UNCHANGED <<evars, pvars, log>>
    \/ CallEvaluateRegex /\ UNCHANGED <<evars, pvars, log>>
    \/ FpcBegin /\ UNCHANGED <<evars, pvars, log>>
    \/ FpcIterate /\ UNCHANGED <<evars, pvars, log>>
    \/ CallCompile /\ UNCHANGED <<evars, pvars, log>>

SpecFn == InitFn /\ [][NextFn]_vars

\* a session of word checks
InitSession == SInit /\ FIdle

NextSession ==
    \/ NextParse
    \/ Next
    \/ SessionEvaluate /\ UNCHANGED fvars
    \/ SessionReport /\ UNCHANGED fvars
    \/ SessionEdit /\ UNCHANGED fvars

SpecSession == InitSession /\ [][NextSession]_vars

\* one call of each of the two definitions of dbaEvaluateOmegaWord on the
\* same arguments
InitBoth == Init

NextBoth ==
    \/ Next
    \/ EvalSecondDefinition /\ UNCHANGED <<evars, pvars, log>>

SpecBoth == InitBoth /\ [][NextBoth]_vars
-----------------------------------------------------------------------------
(* Properties of dbaEvaluateOmegaWord *)

Done == epc = "done"

InitialOk == automaton.initial \in Range(automaton.states)

\* the prefix candidate at 0-based position i gets stuck from the initial state
PrefixStuck(i) ==
    RunWord(prefixTransforms[i + 1].word, initialIndex[1], table) = Null

\* running v forever from state yields a cycle with an accepting state
LoopAccepts(state, v) ==
    LET c == FindPeriodicCycle(state, v, table)
    IN  c # Null /\ HasAccepting(automaton, c[1].cycleStates)

\* the pair (prefix candidate i, loop candidate j) runs and its cycle holds
\* an accepting state
PairAccepts(i, j) ==
    LET r == RunWord(prefixTransforms[i + 1].word, initialIndex[1], table)
    IN  r # Null /\ LoopAccepts(r[1].state, loopTransforms[j + 1].word)

PrefixPositions == 0..(Len(prefixTransforms) - 1)

LoopPositions == 0..(Len(loopTransforms) - 1)

RECURSIVE Matches(_, _)
RECURSIVE MatchesSeq(_, _, _)

\* w is the concatenation of words of nodes[k], nodes[k+1], ...
MatchesSeq(nodes, k, w) ==
    IF k > Len(nodes) THEN w = <<>>
    ELSE \E i \in 0..Len(w) :
            /\ Matches(nodes[k], SubSeq(w, 1, i))
            /\ MatchesSeq(nodes, k + 1, SubSeq(w, i + 1, Len(w)))

\* w belongs to the language of the regular expression node
Matches(node, w) ==
    CASE node.kind = "null" -> w = <<>>
      [] node.kind = "literal" -> w = node.value
      [] node.kind = "concat" -> MatchesSeq(node.nodes, 1, w)
      [] node.kind = "union" ->
            \E k \in DOMAIN node.nodes : Matches(node.nodes[k], w)
      [] node.kind = "star" ->
            \/ w = <<>>
            \/ \E i \in 1..Len(w) :
                  /\ Matches(node.node, SubSeq(w, 1, i))
                  /\ Matches(node, SubSeq(w, i + 1, Len(w)))
      [] node.kind = "plus" ->
            \E i \in 0..Len(w) :
                  /\ Matches(node.node, SubSeq(w, 1, i))
                  /\ Matches(Star(node.node), SubSeq(w, i + 1, Len(w)))
      [] node.kind = "omega" -> Matches(node.node, w)

MaxWordLen == 3

\* every word over the alphabet of length at most MaxWordLen
BoundedWords == UNION {[1..n -> Range(Alphabet)] : n \in 0..MaxWordLen}

RECURSIVE SingleRealization(_)
\* the language of node is one word: no prefix, a literal, or a concat of such
SingleRealization(node) ==
    CASE node.kind = "null" -> TRUE
      [] node.kind = "literal" -> TRUE
      [] node.kind = "concat" ->
            \A k \in DOMAIN node.nodes : SingleRealization(node.nodes[k])
      [] OTHER -> FALSE

\* C1: for an automaton whose initial state is declared, the evaluation
\* accepts if and only if some (prefix candidate, loop candidate) pair runs
\* without getting stuck and yields a cycle containing an accepting state.
C1_AcceptedIffSomePair ==
    (Done /\ InitialOk) =>
        (result[1].accepted <=>
            \E i \in PrefixPositions, j \in LoopPositions : PairAccepts(i, j))

\* C2: when the prefix is absent or has a single realization, the evaluation
\* accepts if and only if some concrete word v of the loop expression's
\* language yields, from the state the prefix reaches, a cycle containing an
\* accepting state (deduplication by state map does not change the verdict).
C2_AcceptedIffSomeLoopWord ==
    (Done /\ InitialOk /\ SingleRealization(word.prefix)) =>
        LET r == RunWord(prefixTransforms[1].word, initialIndex[1], table)
        IN  result[1].accepted <=>
                /\ r # Null
                /\ \E v \in BoundedWords \cup {result[1].loopWord} :
                      Matches(word.omega, v) /\ LoopAccepts(r[1].state, v)

\* C3: once a pair has yielded a cycle with an accepting state, the returned
\* result is that pair's accepting result: no prefix candidate examined
\* afterwards turns the verdict into a rejection.
C3_AcceptsImmediately ==
    (Done /\ sampleAccept # Null) => result = sampleAccept

\* C4: whenever runWord gets stuck on a prefix candidate, findPeriodicCycle
\* is called for no loop candidate under that prefix candidate and the
\* evaluation has returned the prefix-stuck diagnostic for that candidate.
C4_StuckPrefixAttributed ==
    \A i \in runCalls :
        PrefixStuck(i) =>
            /\ \A j \in LoopPositions : <<i, j>> \notin cycleCalls
            /\ Done
            /\ result = Some([accepted |-> FALSE, cycle |-> <<>>,
                              prefixWord |-> prefixTransforms[i + 1].word,
                              loopWord |-> <<>>,
                              entryState |-> automaton.initial,
                              reason |-> "Prefix causes the run to get stuck."])

\* a second or later prefix candidate got stuck after loop candidates were
\* examined under an earlier one
C4_Witness ==
    /\ Done
    /\ cycleCalls # {}
    /\ \E i \in runCalls : i >= 1 /\ PrefixStuck(i)

\* C5: a prefix candidate without an accepting loop candidate does not end
\* the evaluation: a later prefix candidate that has a loop candidate with an
\* accepting cycle still leads to accepted = true.
C5_LaterPrefixStillAccepts ==
    (/\ Done
     /\ InitialOk
     /\ \E i \in PrefixPositions, k \in PrefixPositions :
           /\ i < k
           /\ ~PrefixStuck(i)
           /\ \A j \in LoopPositions : ~PairAccepts(i, j)
           /\ \E j \in LoopPositions : PairAccepts(k, j))
    => result[1].accepted

AllPrefixesStuck == \A i \in PrefixPositions : PrefixStuck(i)

\* C6 as stated: if every prefix candidate gets stuck, the result is the
\* generic "no valid run" diagnostic.
C6_AllStuckGeneric ==
    (Done /\ InitialOk /\ AllPrefixesStuck) =>
        /\ result[1].accepted = FALSE
        /\ result[1].reason =
              "No valid run for the given ω-word (stuck on a transition)."

\* C6 amended: if every prefix candidate gets stuck, the result is the
\* prefix-stuck diagnostic of the first prefix candidate.
C6_AllStuckPrefixDiagnostic ==
    (Done /\ InitialOk /\ AllPrefixesStuck) =>
        /\ result[1].accepted = FALSE
        /\ result[1].cycle = <<>>
        /\ result[1].prefixWord = prefixTransforms[1].word
        /\ result[1].reason = "Prefix causes the run to get stuck."

\* several prefix candidates, all of them stuck
C6_Witness ==
    Done /\ InitialOk /\ Len(prefixTransforms) >= 2 /\ AllPrefixesStuck

\* C7: if the initial state is not a declared state, the evaluation returns
\* the structured failure right after building its tables, whatever the
\* word, and neither runWord nor findPeriodicCycle is called.
C7_MissingInitial ==
    (epc # "start" /\ ~InitialOk) =>
        /\ Done
        /\ runCalls = {}
        /\ cycleCalls = {}
        /\ result = Some([accepted |-> FALSE, cycle |-> <<>>,
                          prefixWord |-> <<>>, loopWord |-> <<>>,
                          entryState |-> automaton.initial,
                          reason |-> "Initial state is not part of the automaton."])

\* an automaton with an empty state list and a word with a starred prefix
C7_Witness ==
    /\ Done
    /\ automaton.states = <<>>
    /\ word.prefix.kind = "star"
    /\ result # Null

-----------------------------------------------------------------------------
(* Properties of parseOmegaWord *)

ParseDone == ppc = "done" /\ presult # Null

\* the parser accepted the input: parse() returned a tree
SyntacticallyValid == ast # Null

\* the children of a node, by its kind
Children(node) ==
    IF node.kind \in {"concat", "union"} THEN node.nodes
    ELSE IF node.kind \in {"star", "plus", "omega"} THEN <<node.node>>
    ELSE <<>>

RECURSIVE OmegaPaths(_)
\* the positions (child-index paths from the root) of the omega nodes
OmegaPaths(node) ==
    (IF node.kind = "omega" THEN {<<>>} ELSE {})
    \cup UNION {{<<k>> \o path : path \in OmegaPaths(Children(node)[k])} :
                   k \in DOMAIN Children(node)}

\* the only omega node is the whole tree
OmegaIsWhole(tree) == OmegaPaths(tree) = {<<>>}

\* the only omega node is the last element of the top-level concatenation
OmegaIsLast(tree) ==
    /\ tree.kind = "concat"
    /\ OmegaPaths(tree) = {<<Len(tree.nodes)>>}

\* the leading elements of a top-level concatenation as one node
Leading(tree) ==
    LET lead == SubSeq(tree.nodes, 1, Len(tree.nodes) - 1)
    IN  IF Len(lead) = 1 THEN lead[1] ELSE Cat(lead)

\* C8: parseOmegaWord returns ok = true only if the parsed tree holds exactly
\* one omega node, which is the whole tree or the last element of the
\* top-level concatenation; the returned loop is that node's child and the
\* prefix is the leading elements, absent when there are none.
C8_SuccessShape ==
    (ParseDone /\ presult[1].ok) =>
        LET w == presult[1].word
        IN  /\ SyntacticallyValid
            /\ w.ast = ast[1]
            /\ Cardinality(OmegaPaths(w.ast)) = 1
            /\ \/ /\ OmegaIsWhole(w.ast)
                  /\ w.omega = w.ast.node
                  /\ w.prefix = NoNode
               \/ /\ OmegaIsLast(w.ast)
                  /\ Len(w.ast.nodes) >= 2
                  /\ w.omega = w.ast.nodes[Len(w.ast.nodes)].node
                  /\ w.prefix = Leading(w.ast)

\* a success whose prefix is a concatenation of two leading elements
C8_Witness ==
    /\ ParseDone
    /\ presult[1].ok
    /\ presult[1].word.ast.kind = "concat"
    /\ Len(presult[1].word.ast.nodes) = 3
    /\ presult[1].word.prefix.kind = "concat"
    /\ presult[1].word.omega.kind = "concat"

\* C9: for a syntactically valid input the placement validation answers by
\* the number and position of the omega nodes: none gives the missing-suffix
\* message, more than one gives the only-one message, exactly one that is
\* neither the whole tree nor the last element of the top-level
\* concatenation gives the not-trailing message; the three differ.
C9_PlacementDiagnostics ==
    /\ MissingOmegaMessage # MultipleOmegaMessage
    /\ MissingOmegaMessage # NotTrailingMessage
    /\ MultipleOmegaMessage # NotTrailingMessage
    /\ MultipleOmegaMessage = <<"Only one ^w (or ^ω) suffix is allowed.">>
    /\ (ParseDone /\ SyntacticallyValid) =>
          LET count == Cardinality(OmegaPaths(ast[1]))
              trailing == OmegaIsWhole(ast[1]) \/ OmegaIsLast(ast[1])
          IN  /\ count = 0 => presult[1] = ParseError(MissingOmegaMessage)
              /\ count > 1 => presult[1] = ParseError(MultipleOmegaMessage)
              /\ (count = 1 /\ ~trailing) =>
                     presult[1] = ParseError(NotTrailingMessage)

\* "(ab)^w|c" is rejected as not trailing
C9_Witness ==
    /\ ParseDone
    /\ raw = <<"(", "a", "b", ")", "^", "w", "|", "c">>
    /\ ast[1].kind = "union"
    /\ presult[1] = ParseError(NotTrailingMessage)

\* a result is { ok: true, word } or { ok: false, error } with a message
StructuredResult(r) ==
    \/ /\ r.ok
       /\ DOMAIN r = {"ok", "word"}
       /\ DOMAIN r.word = {"prefix", "omega", "ast"}
    \/ /\ ~r.ok
       /\ DOMAIN r = {"ok", "error"}
       /\ Len(r.error) > 0
       /\ r.error[1] # ""

\* the number of steps a call on str may take
StepBound(str) == 6 * Len(str) + 8

\* the call is still running and has a next step, or it has returned a
\* structured result; it stays within its step bound and its cursor stays
\* within the input
ParserProgress ==
    /\ ppc # "done" => ENABLED PNext
    /\ ppc = "done" => presult # Null /\ StructuredResult(presult[1])
    /\ ppc # "done" => presult = Null
    /\ psteps <= StepBound(raw)
    /\ index \in 0..Len(input)
    /\ Running("concat", "afterRepeat") => index > Top.mark

\* an iteration of a loop of the parser that goes on to another iteration
LoopContinues ==
    \/ Running("repeat", "loop") /\ ppc' = "parsing" /\ Len(stack') = Len(stack)
    \/ Running("union", "afterConcat") /\ Len(stack') = Len(stack) + 1

\* the cursor never moves back and moves forward in each such iteration
CursorAdvances ==
    /\ index' >= index
    /\ LoopContinues => index' > index

\* C10: on every input parseOmegaWord terminates (within a number of steps
\* linear in the input) with a structured result, ok = true with a word or
\* ok = false with a non-empty message; no step is left without a handler
\* and no loop of the parser iterates without advancing the cursor.
C10_TerminatesStructured == []ParserProgress /\ [][CursorAdvances]_vars

\* a "^" that is not followed by "w" ends in a structured failure
C10_Witness ==
    /\ ParseDone
    /\ raw = <<"(", "a", "*", "^">>
    /\ ~presult[1].ok
    /\ psteps > Len(raw)

-----------------------------------------------------------------------------
(* Properties of the transform algebra *)

\* starClosure has returned
StarClosureDone == fcall.name = "starClosure" /\ fout # Null

\* the maps of a list of transforms
MapsOf(items) == {items[i].map : i \in DOMAIN items}

RECURSIVE Power(_, _)
\* base to the exponent, with Power(0, 0) = 1
Power(base, exponent) ==
    IF exponent = 0 THEN 1 ELSE base * Power(base, exponent - 1)

\* C11: the result of starClosure(base, n) holds a transform with the
\* identity map, holds the map of every member of base, and is closed under
\* composition with base: for every member c and every b of base the map
\* of compose(c, b) is the map of a member.
C11_StarClosureClosed ==
    StarClosureDone =>
        LET maps == MapsOf(fout[1])
        IN  /\ [i \in 1..fcall.size |-> i - 1] \in maps
            /\ MapsOf(fcall.base) \subseteq maps
            /\ \A i \in DOMAIN fout[1] : \A j \in DOMAIN fcall.base :
                   Compose(fout[1][i], fcall.base[j]).map \in maps

\* a closure that needed more than one round of composition
C11_Witness ==
    /\ StarClosureDone
    /\ fcall.from = "any"
    /\ Len(fcall.base) = 2
    /\ Len(fout[1]) > 1 + 2 * Len(fcall.base)

\* C12 as stated: for a base produced by the evaluator over n states,
\* starClosure(base, n) returns at most n^n entries.
C12_SizeAtMostTotalMaps ==
    (StarClosureDone /\ fcall.from = "evaluateRegex") =>
        Len(fout[1]) <= Power(fcall.size, fcall.size)

\* C12 amended: the entries of starClosure(base, n) have pairwise distinct
\* maps, so there are at most (n + 1)^n of them, the number of maps that
\* may send a state to -1.
C12_SizeAtMostPartialMaps ==
    (StarClosureDone /\ fcall.from = "evaluateRegex") =>
        /\ Len(fout[1]) <= Power(fcall.size + 1, fcall.size)
        /\ \A i, j \in DOMAIN fout[1] :
               fout[1][i].map = fout[1][j].map => i = j

\* a closure with more entries than there are total maps
C12_Witness ==
    /\ StarClosureDone
    /\ fcall.from = "evaluateRegex"
    /\ fcall.size = 2
    /\ Len(fout[1]) > Power(fcall.size, fcall.size)

-----------------------------------------------------------------------------
(* Properties of the word check *)

\* dbaEvaluateOmegaWord is running
Evaluating == epc \in {"start", "prefix", "loop", "after"}

\* the locals of dbaEvaluateOmegaWord hold nothing of an earlier call
FreshLocals ==
    /\ table = <<>>
    /\ prefixTransforms = <<>>
    /\ loopTransforms = <<>>
    /\ initialIndex = Null
    /\ pi = 0
    /\ li = 0
    /\ prefixRun = Null
    /\ acceptingForPrefix = Null
    /\ firstNonAccepting = Null
    /\ ~sawLoop
    /\ sampleAccept = Null
    /\ result = Null

\* two finished evaluations of the same pair gave the same result
SameResults ==
    \A i, j \in DOMAIN log :
        (log[i].automaton = log[j].automaton /\ log[i].word = log[j].word)
            => /\ log[i].result.accepted = log[j].result.accepted
               /\ log[i].result.cycle = log[j].result.cycle
               /\ log[i].result.prefixWord = log[j].result.prefixWord
               /\ log[i].result.loopWord = log[j].result.loopWord
               /\ log[i].result.entryState = log[j].result.entryState
               /\ log[i].result.reason = log[j].result.reason

Evaluated(str, a) ==
    /\ raw = str
    /\ automaton = a
    /\ ppc = "evaluated"
    /\ epc \in {"done", "reported"}
    /\ result # Null

\* C14: on the pure-b automaton the word "b^w" is accepted and the returned
\* cycle is the one-element sequence [q0].
C14_PureBAcceptsSingleState ==
    Evaluated(<<"b", "^", "w">>, PureB) =>
        /\ result[1].accepted
        /\ result[1].cycle = <<"q0">>

\* C15: on the pure-b automaton the word "ab^w" is rejected with prefixWord
\* "a", loopWord "b", entryState q_bad and a cycle of q_bad only.
C15_PureBRejectsTrap ==
    Evaluated(<<"a", "b", "^", "w">>, PureB) =>
        /\ ~result[1].accepted
        /\ result[1].prefixWord = <<"a">>
        /\ result[1].loopWord = <<"b">>
        /\ result[1].entryState = "q_bad"
        /\ Len(result[1].cycle) > 0
        /\ \A k \in DOMAIN result[1].cycle : result[1].cycle[k] = "q_bad"

\* "ab^w" has been evaluated on pure-b
C15_Witness ==
    /\ Evaluated(<<"a", "b", "^", "w">>, PureB)
    /\ result[1].reason = "Cycle detected while repeating the loop word."

\* C16: on the finitely-many-a automaton the word "(ab)^w" is rejected.
C16_FinitelyManyARejects ==
    Evaluated(<<"(", "a", "b", ")", "^", "w">>, FinitelyManyA) =>
        ~result[1].accepted

-----------------------------------------------------------------------------
(* Properties of evaluateRegex *)

\* evaluateRegex has returned
EvaluateRegexDone == fcall.name = "evaluateRegex" /\ fout # Null

\* every transition of the automaton is on a symbol of its alphabet
SymbolsInAlphabet(a) ==
    \A k \in DOMAIN a.transitions :
        a.transitions[k].symbol \in Range(a.alphabet)

\* the state index runWord reaches from q on w, -1 when it gets stuck
RunTarget(a, w, q) ==
    LET run == RunWord(w, q, BuildStep(a))
    IN  IF run = Null THEN NoTarget ELSE run[1].state

\* the map induced by running w from every state
MapOfWord(a, w) == [i \in 1..Len(a.states) |-> RunTarget(a, w, i - 1)]

\* C17: when the transition symbols belong to the alphabet, every transform
\* t returned by evaluateRegex is the effect of running its word: t.map[q]
\* is the state runWord(t.word, q, step) reaches, and it is -1 exactly when
\* that run gets stuck.
C17_TransformIsEffectOfWord ==
    (EvaluateRegexDone /\ SymbolsInAlphabet(fcall.automaton)) =>
        \A k \in DOMAIN fout[1] :
            LET t == fout[1][k]
            IN  /\ DOMAIN t.map = 1..Len(fcall.automaton.states)
                /\ \A q \in 0..(Len(fcall.automaton.states) - 1) :
                       LET run == RunWord(t.word, q, BuildStep(fcall.automaton))
                       IN  /\ t.map[q + 1] = NoTarget <=> run = Null
                           /\ run # Null => t.map[q + 1] = run[1].state

\* a transform with a word of three symbols that is stuck from one state
\* and not from another
C17_Witness ==
    /\ EvaluateRegexDone
    /\ SymbolsInAlphabet(fcall.automaton)
    /\ \E k \in DOMAIN fout[1] :
          /\ Len(fout[1][k].word) >= 3
          /\ \E q \in DOMAIN fout[1][k].map : fout[1][k].map[q] = NoTarget
          /\ \E q \in DOMAIN fout[1][k].map : fout[1][k].map[q] # NoTarget

\* C18: for a node without omega and transition symbols in the alphabet,
\* the list evaluateRegex returns has no two entries with the same map,
\* every entry's word is in the language of the node, and the maps of the
\* entries are the maps induced by the words of the language.
C18_DedupedAndComplete ==
    (EvaluateRegexDone /\ SymbolsInAlphabet(fcall.automaton)) =>
        /\ \A i, j \in DOMAIN fout[1] :
               fout[1][i].map = fout[1][j].map => i = j
        /\ \A k \in DOMAIN fout[1] :
               /\ Matches(fcall.node, fout[1][k].word)
               /\ MapOfWord(fcall.automaton, fout[1][k].word) = fout[1][k].map
        /\ \A w \in BoundedWords :
               Matches(fcall.node, w) =>
                   MapOfWord(fcall.automaton, w) \in MapsOf(fout[1])

\* a nested star over a union with several maps, fewer than its words
C18_Witness ==
    /\ EvaluateRegexDone
    /\ SymbolsInAlphabet(fcall.automaton)
    /\ fcall.node = Star(Alt(<<Lit("a"), Lit("b")>>))
    /\ Len(fout[1]) >= 4
    /\ Len(fout[1]) < Cardinality(BoundedWords)

-----------------------------------------------------------------------------
(* Properties of findPeriodicCycle *)

\* findPeriodicCycle runs or has returned, on a non-empty loop word
CycleSearch == fcall.name = "findPeriodicCycle" /\ Len(fcall.loopWord) > 0

\* findPeriodicCycle has returned on a non-empty loop word
CycleSearchDone == CycleSearch /\ fout # Null

RECURSIVE RunState(_, _, _, _)
\* the state after i symbols of loopWord repeated forever, from entryState;
\* -1 once the run is stuck
RunState(a, entryState, loopWord, i) ==
    IF i = 0 THEN entryState
    ELSE LET before == RunState(a, entryState, loopWord, i - 1)
         IN  IF before = NoTarget THEN NoTarget
             ELSE Step(BuildStep(a), before,
                       loopWord[((i - 1) % Len(loopWord)) + 1])

\* the (state, index mod length) pair after i symbols
RunPair(a, entryState, loopWord, i) ==
    <<RunState(a, entryState, loopWord, i), i % Len(loopWord)>>

\* the pair after t symbols is the pair after s symbols, s < t
RepeatsAt(a, entryState, loopWord, s, t) ==
    /\ s < t
    /\ RunPair(a, entryState, loopWord, s) = RunPair(a, entryState, loopWord, t)

\* the number of symbols read when a pair repeats for the first time
FirstRepeat(a, entryState, loopWord) ==
    CHOOSE t \in 1..(Len(a.states) * Len(loopWord)) :
        /\ \E s \in 0..(t - 1) : RepeatsAt(a, entryState, loopWord, s, t)
        /\ \A u \in 1..(t - 1) :
               ~\E s \in 0..(u - 1) : RepeatsAt(a, entryState, loopWord, s, u)

\* the first occurrence of the first repeated pair
FirstOccurrence(a, entryState, loopWord) ==
    CHOOSE s \in 0..(FirstRepeat(a, entryState, loopWord) - 1) :
        RepeatsAt(a, entryState, loopWord, s,
                  FirstRepeat(a, entryState, loopWord))

\* C19: for a non-empty loop word on which the run does not get stuck, the
\* cycleStates findPeriodicCycle returns are the states from the first
\* occurrence of the first repeated pair up to, and excluding, the repeat:
\* one entry per symbol of the period.
C19_CycleExcludesRepeat ==
    (CycleSearchDone /\ fout[1] # Null) =>
        LET a == fcall.automaton
            e == fcall.entryState
            w == fcall.loopWord
            s == FirstOccurrence(a, e, w)
            t == FirstRepeat(a, e, w)
        IN  fout[1][1].cycleStates =
                [k \in 1..(t - s) |-> RunState(a, e, w, s + k - 1)]

\* the pairs of the first count entries of path are pairwise different
DistinctPairs(path, count, period) ==
    \A i, j \in 0..(count - 1) :
        (path[i + 1] = path[j + 1] /\ i % period = j % period) => i = j

\* C20: on a non-empty loop word findPeriodicCycle applies step at most
\* |states| x |loopWord| times and then returns: null when step was
\* undefined before a pair repeated, a cycle at the first repeated pair.
C20_CycleSearchBounded ==
    (CycleSearch /\ flocal # Null) =>
        LET l == flocal[1]
            period == Len(fcall.loopWord)
            tbl == BuildStep(fcall.automaton)
        IN  /\ l.steps <= Len(fcall.automaton.states) * period
            /\ fout = Null => ENABLED FpcIterate
            /\ fout # Null =>
                   fout[1] = FindPeriodicCycle(fcall.entryState,
                                               fcall.loopWord, tbl)
            /\ (fout # Null /\ fout[1] = Null) =>
                   /\ Step(tbl, l.state, fcall.loopWord[l.pos + 1]) = NoTarget
                   /\ DistinctPairs(l.path, Len(l.path), period)
                   /\ l.steps = Len(l.path)
            /\ (fout # Null /\ fout[1] # Null) =>
                   /\ ~DistinctPairs(l.path, Len(l.path), period)
                   /\ DistinctPairs(l.path, Len(l.path) - 1, period)
                   /\ l.steps = Len(l.path) - 1

\* a search that needed all |states| x |loopWord| applications of step
C20_Witness ==
    /\ CycleSearchDone
    /\ fout[1] # Null
    /\ Len(fcall.automaton.states) = 2
    /\ Len(fcall.loopWord) = 3
    /\ flocal[1].steps = 6

-----------------------------------------------------------------------------
(* Properties of the loop over the loop candidates, dba.ts lines 78-123 *)

\* the loop candidate at 0-based position j gets stuck from the state the
\* current prefix candidate reaches
LoopStuckAt(j) ==
    FindPeriodicCycle(prefixRun[1].state, loopTransforms[j + 1].word, table) = Null

\* one iteration on a stuck loop candidate: nothing is returned, the
\* diagnostic is recorded only if none is recorded yet, and the iteration
\* moves to the next loop candidate of the same prefix candidate
StuckLoopContinues ==
    (epc = "loop" /\ LoopStuckAt(li)) =>
        /\ pi' = pi
        /\ prefixRun' = prefixRun
        /\ li' = li + 1
        /\ epc' = (IF li + 1 < Len(loopTransforms) THEN "loop" ELSE "after")
        /\ result' = Null
        /\ acceptingForPrefix' = Null
        /\ firstNonAccepting' =
              IF firstNonAccepting = Null
              THEN Some([accepted |-> FALSE, cycle |-> <<>>,
                         prefixWord |-> prefixTransforms[pi + 1].word,
                         loopWord |-> loopTransforms[li + 1].word,
                         entryState |-> IndexToState(automaton.states,
                                                     prefixRun[1].state),
                         reason |-> "Loop causes the run to get stuck."])
              ELSE firstNonAccepting

\* a recorded diagnostic is never replaced under the same prefix candidate
DiagnosticRecordedOnce ==
    (epc = "loop" /\ firstNonAccepting # Null) =>
        firstNonAccepting' = firstNonAccepting

\* after the loop candidates of a prefix candidate, the prefix candidate is
\* accepting exactly if one of its loop candidates has an accepting cycle
AcceptingLoopDecides ==
    epc = "after" =>
        (acceptingForPrefix # Null <=>
            \E j \in LoopPositions : PairAccepts(pi, j))

\* C21: a stuck loop candidate records the loop-stuck diagnostic at most
\* once per prefix candidate and the evaluation continues with the next loop
\* candidate of the same prefix; a later loop candidate whose cycle contains
\* an accepting state still makes the prefix candidate accepting.
C21_StuckLoopTriesNext ==
    /\ []AcceptingLoopDecides
    /\ [][StuckLoopContinues /\ DiagnosticRecordedOnce]_vars

\* a prefix candidate made accepting by a loop candidate that follows a stuck
\* one, with the loop-stuck diagnostic recorded for the stuck one
C21_Witness ==
    /\ epc = "after"
    /\ acceptingForPrefix # Null
    /\ \E j \in 0..(li - 1) : LoopStuckAt(j)
    /\ firstNonAccepting # Null
    /\ firstNonAccepting[1].reason = "Loop causes the run to get stuck."

-----------------------------------------------------------------------------
(* Properties of the transition compiler, dba.ts lines 163-192 and 230-245 *)

CompileDone == fcall.name = "compile" /\ fout # Null

\* the positions of the transitions declared for state index q and symbol s
DeclaredFor(a, q, s) ==
    {k \in DOMAIN a.transitions :
        a.transitions[k].from = a.states[q + 1] /\ a.transitions[k].symbol = s}

\* the index of the target of the transition at position k, -1 if the target
\* is not a declared state
TargetOf(a, k) ==
    LET to == StateToIndex(a.states, a.transitions[k].to)
    IN  IF to = Null THEN NoTarget ELSE to[1]

\* the target of the last transition declared for (q, s); -1 if there is
\* none or its target is not a declared state
LastDeclared(a, q, s) ==
    LET hits == DeclaredFor(a, q, s)
    IN  IF hits = {} THEN NoTarget
        ELSE TargetOf(a, CHOOSE k \in hits : \A j \in hits : j <= k)

\* the target of the last transition declared for (q, s) among those whose
\* target is a declared state; -1 if there is none
LastWellFormed(a, q, s) ==
    LET hits == {k \in DeclaredFor(a, q, s) : TargetOf(a, k) # NoTarget}
    IN  IF hits = {} THEN NoTarget
        ELSE TargetOf(a, CHOOSE k \in hits : \A j \in hits : j <= k)

\* for every alphabet symbol the per-symbol map is the step function
OutputsAgree ==
    LET a == fcall.automaton
    IN  \A q \in 0..(Len(a.states) - 1), s \in Range(a.alphabet) :
            fout[1].letterTransforms[s].map[q + 1] = Step(fout[1].table, q, s)

\* C22 as stated: step(q, s) is the target of the last transition declared
\* for (q, s), -1 when there is none or its endpoint is not a declared
\* state, and the per-symbol table agrees with step.
C22_LastDeclaredWins ==
    CompileDone =>
        LET a == fcall.automaton
        IN  /\ \A q \in 0..(Len(a.states) - 1), s \in Range(a.alphabet) :
                  Step(fout[1].table, q, s) = LastDeclared(a, q, s)
            /\ OutputsAgree

\* C22 amended: transitions with an endpoint that is not a declared state
\* are skipped, so step(q, s) is the target of the last transition declared
\* for (q, s) whose endpoints are both declared states, -1 when there is
\* none, and the per-symbol table agrees with step.
C22_LastWellFormedWins ==
    CompileDone =>
        LET a == fcall.automaton
        IN  /\ \A q \in 0..(Len(a.states) - 1), s \in Range(a.alphabet) :
                  Step(fout[1].table, q, s) = LastWellFormed(a, q, s)
            /\ OutputsAgree

\* (q0, a) is declared three times: two declared targets, the later of which
\* wins, then a target that is not a declared state
C22_Witness ==
    /\ CompileDone
    /\ fcall.automaton.transitions =
          <<Tr("q0", "a", "q0"), Tr("q0", "a", "q1"), Tr("q0", "a", "q9")>>
    /\ Step(fout[1].table, 0, "a") = 1
    /\ fout[1].letterTransforms["a"].map = <<1, NoTarget>>

-----------------------------------------------------------------------------
(* Properties of the expression grammar, part_000 lines 225-309 *)

RECURSIVE Yield(_)
RECURSIVE YieldSeq(_, _, _)

\* the yields of nodes[k], nodes[k+1], ... joined by sep
YieldSeq(nodes, k, sep) ==
    IF k > Len(nodes) THEN <<>>
    ELSE (IF k > 1 THEN sep ELSE <<>>) \o Yield(nodes[k])
         \o YieldSeq(nodes, k + 1, sep)

\* the characters of an expression in reading order, without parentheses
Yield(node) ==
    CASE node.kind = "literal" -> node.value
      [] node.kind = "concat" -> YieldSeq(node.nodes, 1, <<>>)
      [] node.kind = "union" -> YieldSeq(node.nodes, 1, <<"|">>)
      [] node.kind = "star" -> Yield(node.node) \o <<"*">>
      [] node.kind = "plus" -> Yield(node.node) \o <<"+">>
      [] node.kind = "omega" -> Yield(node.node) \o <<"^", "w">>

\* the characters of the input that are neither whitespace nor parentheses
Tokens(str) == SelectSeq(str, LAMBDA c : c \notin WhiteSpace \cup {"(", ")"})

\* both spellings of the omega suffix read alike
SameSpelling(str) == [i \in DOMAIN str |-> IF str[i] = "ω" THEN "w" ELSE str[i]]

OpenParens(str) == Len(SelectSeq(str, LAMBDA c : c = "("))

\* a node of this kind directly under a node of kind parent can only come
\* from a parenthesized group: a union under anything, a concat under a
\* concat or a postfix operator, an omega under a postfix operator
NeedsGroup(kind, parent) ==
    \/ kind = "union" /\ parent # "root"
    \/ kind = "concat" /\ parent \in {"concat", "star", "plus", "omega"}
    \/ kind = "omega" /\ parent \in {"star", "plus", "omega"}

RECURSIVE Groups(_, _)
RECURSIVE GroupsSum(_, _, _)

GroupsSum(nodes, k, parent) ==
    IF k > Len(nodes) THEN 0
    ELSE Groups(nodes[k], parent) + GroupsSum(nodes, k + 1, parent)

\* the number of nodes of an expression that can only come from a group
Groups(node, parent) ==
    (IF NeedsGroup(node.kind, parent) THEN 1 ELSE 0)
    + CASE node.kind = "literal" -> 0
        [] node.kind \in {"concat", "union"} ->
              GroupsSum(node.nodes, 1, node.kind)
        [] node.kind \in {"star", "plus", "omega"} ->
              Groups(node.node, node.kind)

\* C23: precedence, low to high, is union, concatenation, postfix repeat,
\* postfix omega, primary. The tree reads as the input without parentheses,
\* and every node that departs from the precedence (a union that does not
\* split the whole expression, a concat inside a concat or under a postfix
\* operator, an omega under a postfix operator) is paid for by a pair of
\* parentheses; 'a|bc*' parses as union(a, concat(b, star(c))) and 'ab*^w'
\* as concat(a, omega(star(b))).
C23_Precedence ==
    /\ ast # Null =>
          /\ SameSpelling(Yield(ast[1])) = SameSpelling(Tokens(input))
          /\ Groups(ast[1], "root") <= OpenParens(input)
    /\ (ppc = "done" /\ raw = <<"a", "|", "b", "c", "*">>) =>
          ast = Some(Alt(<<Lit("a"), Cat(<<Lit("b"), Star(Lit("c"))>>)>>))
    /\ (ppc = "done" /\ raw = <<"a", "b", "*", "^", "w">>) =>
          ast = Some(Cat(<<Lit("a"), Omega(Star(Lit("b")))>>))

\* a parsed input in which a parenthesized union with a postfix operator is
\* followed by two juxtaposed items, the second with an omega suffix
C23_Witness ==
    /\ ppc = "done"
    /\ raw = <<"(", "a", "|", "b", ")", "*", "a", "^", "ω">>
    /\ ast = Some(Cat(<<Star(Alt(<<Lit("a"), Lit("b")>>)), Omega(Lit("a"))>>))

-----------------------------------------------------------------------------
(* Properties of the postfix loop, part_000 lines 255-309 *)

\* str holds an omega suffix that is followed, whitespace aside, by a
\* postfix operator
PostfixAfterOmega(str) ==
    \E i \in 0..(Len(str) - 1) :
        /\ PeekAt(str, i) = "^"
        /\ PeekAt(str, i + 1) \in {"w", "ω"}
        /\ PeekAt(str, SkipWhitespace(str, i + 2)) \in {"*", "+", "^"}

\* the messages of the RegexParseError thrown by the parser
IsSyntaxMessage(message) ==
    \/ message \in {<<"Missing expression before operator.">>,
                     <<"Missing closing parenthesis.">>,
                     <<"Expected \"w\" or \"ω\" right after \"^\".">>,
                     <<"Expected literal.">>}
    \/ \E idx \in 0..Len(raw), char \in Range(raw) :
          message = UnexpectedCharacter(char, idx)

\* C24: no postfix operator may follow an omega suffix: every input in
\* which '^w' or '^ω' is followed, whitespace aside, by '*', '+' or '^' is
\* rejected with ok = false and the message of a syntax error.
C24_NoPostfixAfterOmega ==
    (ParseDone /\ PostfixAfterOmega(raw)) =>
        /\ presult[1].ok = FALSE
        /\ IsSyntaxMessage(presult[1].error)

\* an omega suffix on a well-formed operand, whitespace, then '+': the '+'
\* is reported as an unexpected character
C24_Witness ==
    /\ ParseDone
    /\ raw = <<"a", "^", "w", " ", "+">>
    /\ presult[1] = ParseError(UnexpectedCharacter("+", 4))

-----------------------------------------------------------------------------
(* Properties of star and plus, dba.ts lines 352-361 *)

\* m followed by b, on maps
ComposeMaps(m, b) ==
    [i \in DOMAIN m |-> IF m[i] = NoTarget THEN NoTarget ELSE b[m[i] + 1]]

RECURSIVE Products(_, _)
\* the maps of the compositions of exactly k members of maps
Products(maps, k) ==
    IF k = 1 THEN maps
    ELSE {ComposeMaps(m, b) : m \in Products(maps, k - 1), b \in maps}

\* the maps of the compositions of one or more members of maps: a
\* composition longer than the number of maps over size states repeats a
\* partial product and equals a shorter one
PositiveProducts(maps, size) ==
    UNION {Products(maps, k) : k \in 1..Power(size + 1, size)}

\* C25: the maps of evaluateRegex(plus(x)) are the maps of the compositions
\* of one or more members of evaluateRegex(x); the maps of
\* evaluateRegex(star(x)) are those and the identity map, that is
\* {identity} and the maps of plus(x).
C25_PlusAndStarMaps ==
    (EvaluateRegexDone /\ fcall.node.kind \in {"plus", "star"}) =>
        LET lt == BuildLetterTransforms(fcall.automaton)
            size == Len(fcall.automaton.states)
            x == fcall.node.node
            products == PositiveProducts(MapsOf(EvaluateRegex(x, lt, size)), size)
            id == [i \in 1..size |-> i - 1]
        IN  IF fcall.node.kind = "plus"
            THEN MapsOf(fout[1]) = products
            ELSE /\ MapsOf(fout[1]) = {id} \cup products
                 /\ MapsOf(fout[1]) =
                       {id} \cup MapsOf(EvaluateRegex(Plus(x), lt, size))

\* a plus whose maps include a composition of several members of the
\* child's set and do not include the identity
C25_Witness ==
    /\ EvaluateRegexDone
    /\ fcall.node.kind = "plus"
    /\ LET lt == BuildLetterTransforms(fcall.automaton)
           size == Len(fcall.automaton.states)
           base == MapsOf(EvaluateRegex(fcall.node.node, lt, size))
       IN  /\ [i \in 1..size |-> i - 1] \notin MapsOf(fout[1])
           /\ Cardinality(base) >= 2
           /\ MapsOf(fout[1]) \ base # {}

-----------------------------------------------------------------------------
(* The cycle of findPeriodicCycle and the infinite run, dba.ts lines 284-322 *)

\* the number of (state, index) pairs: after that many symbols the run is
\* inside its period, which is no longer than that
PairCount(a, loopWord) == Len(a.states) * Len(loopWord)

\* the run on loopWord repeated forever never gets stuck
NeverStuck(a, entryState, loopWord) ==
    RunState(a, entryState, loopWord, 2 * PairCount(a, loopWord)) # NoTarget

\* the states the infinite run visits infinitely often
InfinitelyOften(a, entryState, loopWord) ==
    {RunState(a, entryState, loopWord, i) :
        i \in PairCount(a, loopWord)..(2 * PairCount(a, loopWord))}

\* the states the run is in after whole copies of the loop word
AtWordBoundaries(a, entryState, loopWord) ==
    {RunState(a, entryState, loopWord, k * Len(loopWord)) :
        k \in 0..(2 * Len(a.states))}

\* C26: for a non-empty loop word on which the run never gets stuck, the
\* set of the states in the returned cycleStates is the set of the states
\* the infinite run on loopWord repeated forever visits infinitely often.
C26_CycleIsRecurrentSet ==
    (/\ CycleSearchDone
     /\ NeverStuck(fcall.automaton, fcall.entryState, fcall.loopWord)) =>
        /\ fout[1] # Null
        /\ Range(fout[1][1].cycleStates) =
              InfinitelyOften(fcall.automaton, fcall.entryState, fcall.loopWord)

\* a run that leaves the entry state for good and whose cycle holds a state
\* visited in the middle of the loop word only
C26_Witness ==
    /\ CycleSearchDone
    /\ fout[1] # Null
    /\ fcall.entryState \notin Range(fout[1][1].cycleStates)
    /\ Range(fout[1][1].cycleStates)
          \ AtWordBoundaries(fcall.automaton, fcall.entryState, fcall.loopWord)
          # {}

-----------------------------------------------------------------------------
(* The accepted loop word, dba.ts lines 78-116 and 289-294 *)

\* C27: whenever the evaluation returns accepted = true the reported
\* loopWord is non-empty, so that prefixWord followed by loopWord repeated
\* forever is an infinite word; the empty realization of a loop expression
\* whose language holds the empty word does not by itself lead to
\* acceptance.
C27_AcceptedLoopWordNonEmpty ==
    (Done /\ result[1].accepted) => Len(result[1].loopWord) > 0

-----------------------------------------------------------------------------
(* Properties of the two definitions of dbaEvaluateOmegaWord *)

\* both definitions have returned
BothDone == Done /\ fout # Null

\* C28: on every automaton and every parsed word the two definitions of
\* dbaEvaluateOmegaWord return the same accepted verdict.
C28_SameVerdict ==
    BothDone => fout[1].accepted = result[1].accepted

\* the reasons that report a stuck run or a missing initial state
StuckReasons ==
    {"Prefix causes the run to get stuck.",
     "Loop causes the run to get stuck.",
     "No valid run for the given ω-word (stuck on a transition).",
     "Initial state is not part of the automaton."}

\* the result r of an evaluation of word on automaton is consistent
Consistent(r) ==
    /\ r.accepted <=>
          /\ Len(r.cycle) > 0
          /\ \E k \in DOMAIN r.cycle : r.cycle[k] \in automaton.accepting
    /\ Len(r.cycle) > 0 =>
          LET tbl == BuildStep(automaton)
              start == StateToIndex(automaton.states, automaton.initial)
              run == RunWord(r.prefixWord, start[1], tbl)
              loopCycle == FindPeriodicCycle(run[1].state, r.loopWord, tbl)
          IN  /\ start # Null
              /\ run # Null
              /\ r.entryState = automaton.states[run[1].state + 1]
              /\ loopCycle # Null
              /\ r.cycle = [k \in DOMAIN loopCycle[1].cycleStates |->
                               automaton.states[loopCycle[1].cycleStates[k] + 1]]
    /\ r.reason \in StuckReasons => r.cycle = <<>>

\* C29: every result of either definition is consistent: accepted holds
\* exactly if the cycle is non-empty and holds an accepting state; a
\* non-empty cycle is what findPeriodicCycle returns for loopWord from the
\* state prefixWord reaches from the initial state, which is entryState; a
\* result with a stuck diagnostic has an empty cycle.
C29_ResultConsistent ==
    /\ Done => Consistent(result[1])
    /\ BothDone => Consistent(fout[1])

\* the first definition reports a stuck loop candidate while the second
\* reports a cycle without accepting state
C29_Witness ==
    /\ BothDone
    /\ result[1].reason = "Loop causes the run to get stuck."
    /\ Len(fout[1].cycle) > 0
    /\ ~fout[1].accepted

-----------------------------------------------------------------------------
(* The shape of the result of findPeriodicCycle, dba.ts lines 284-322 *)

\* findPeriodicCycle has returned a result that is not null
CycleFound ==
    /\ fcall.name = "findPeriodicCycle"
    /\ fout # Null
    /\ fout[1] # Null

\* C30: a result of findPeriodicCycle that is not null has a non-empty
\* cycleStates and never the reason 'No cycle detected.'; for a non-empty
\* loop word the sequence starts and ends with the same state and has
\* k x |loopWord| + 1 entries for some k >= 1; for the empty loop word it
\* is [entryState].
C30_CycleShape ==
    CycleFound =>
        LET c == fout[1][1].cycleStates
            period == Len(fcall.loopWord)
        IN  /\ Len(c) > 0
            /\ fout[1][1].reason # "No cycle detected."
            /\ IF period = 0
               THEN c = <<fcall.entryState>>
               ELSE /\ c[1] = c[Len(c)]
                    /\ \E k \in 1..Len(fcall.automaton.states) :
                          Len(c) = k * period + 1

\* a cycle that takes two copies of a loop word of two symbols
C30_Witness ==
    /\ CycleFound
    /\ Len(fcall.loopWord) = 2
    /\ Len(fout[1][1].cycleStates) = 5

=============================================================================
